---- MODULE Spec2Model ----
(***************************************************************************)
(* Model of the playlist generator's server core:                          *)
(*   - the client-credentials token cache of routes/spotify.js             *)
(*     (getSpotifyAccessToken), one process per concurrent caller;         *)
(*   - the pricing helpers of routes/utils/pricing.js;                     *)
(*   - the chat turn controller router.post("/chat") of routes/openai.js   *)
(*     with its intent handlers;                                           *)
(*   - the catalog client of routes/spotify.js: artist matching,           *)
(*     searchTrack, verifySongs and the list operations;                   *)
(*   - the playlist cache of routes/utils/playlistCache.js: the snapshot   *)
(*     file with concurrent readers and refreshes, and searchPlaylists;    *)
(*   - the upload route router.post("/upload") of routes/spotify.js and    *)
(*     the response of router.post("/playlist");                           *)
(*   - the chat route of routes/openai.js that may skip Phase 1 of the     *)
(*     popular_tracks_from_artists turn.                                   *)
(* Strings whose content matters are tuples of one-character strings, so   *)
(* that trim() is computed and not assumed.  Money is counted in           *)
(* nano-dollars, which makes every rate of the pricing table an integer.   *)
(***************************************************************************)
EXTENDS Integers, Sequences, FiniteSets, TLC

VARIABLES
    \* ---- routes/spotify.js, module state of the token cache
    accessToken,      \* cached bearer token, 0 = null
    tokenExpiry,      \* wall-clock instant after which the cache is stale
    tokenPromise,     \* index of the in-flight token request, 0 = null
    now,              \* Date.now(), in units of 600 s
    requests,         \* upstream token requests issued so far
    callers,          \* one getSpotifyAccessToken invocation per caller
    \* ---- routes/utils/pricing.js, arguments and results of one evaluation
    costUsages, costModel, costPc, costTotal, costSingle,
    \* ---- routes/openai.js, the conversation store and the turn in progress
    openai,            \* whether the OpenAI client was created (API key set)
    conversationState, \* Map: session key -> last response id
    pc,                \* position of the turn inside the route handler
    turn,              \* number of the turn (requests are served one by one)
    req,               \* req.body of the turn
    detectedIntents,   \* intentResult.intents
    phase1Intents, phase2Intents,
    phase1Context, phase1Playlist, phase1Usage,
    phase2Context,
    previousResponseId, \* the local of that name
    handlerRuns,       \* intent handler invocations of the turn, in call order
    llmCalls,          \* openai.responses.create calls of the turn, in order
    response,          \* what res.json() sent
    storeBefore,       \* the conversation store when the turn began
    lastSuccess,       \* per session key: id of the last successful LLM
                       \* response of the last successful turn
    credentialFailed,  \* whether getSpotifyAccessToken threw inside a
                       \* handler's call chain during the turn
    \* ---- routes/spotify.js, one verifySongs call
    vsPc,              \* idle, running, returned or rejected
    plRoute,           \* router.post("/playlist"): position, responses sent
    vsSongs,           \* the songs argument
    vsTasks,           \* one callback of songs.map per song
    searchRequests,    \* the search requests sent to the catalog, in order
    verifiedSongs,     \* what verifySongs returned
    \* ---- routes/spotify.js, one call of a list operation
    listPc,            \* position inside the operation
    listOp,            \* the operation and its arguments
    allTracks,         \* the local of that name
    listStep,          \* page being fetched, or index of the artist
    listOutcome,       \* how the operation ended
    listResult,        \* what it returned
    \* ---- routes/utils/playlistCache.js
    cacheFile,         \* the snapshot file data/playlist_cache.json
    cacheClock,        \* new Date(), in units of 24 hours
    cacheProcs,        \* one call into the module per process
    spPc,              \* idle, or returned after a searchPlaylists call
    spArgs,            \* the arguments of that call
    spResult,          \* what it returned
    \* ---- routes/spotify.js, one request to router.post("/upload")
    upPc,              \* position of the request inside the route handler
    upReq,             \* req.body
    upCreateCalls,     \* requests sent to the remote creation endpoint
    upCreated,         \* whether the remote playlist was created
    upOffset,          \* the loop variable i
    upAdds,            \* the batches of the add requests sent, in order
    upResponse,        \* what the route answered
    \* ---- routes/openai.js, the chat route that may skip Phase 1
    tpPc,              \* position of the request inside the route handler
    tpTurn,            \* number of requests received so far
    tpReq,             \* req.body
    tpStore,           \* conversationState: session key -> response id
    tpLast,            \* response id of the last answered turn per key
    tpLocals,          \* previousResponseId, intent, initialPlaylist, artists
    tpCalls,           \* generation calls of the turn, in order
    tpResponse         \* what the route answered

tokenVars == <<accessToken, tokenExpiry, tokenPromise, now, requests, callers>>
costVars  == <<costUsages, costModel, costPc, costTotal, costSingle>>
chatVars  == <<openai, conversationState, pc, turn, req, detectedIntents,
               phase1Intents, phase2Intents, phase1Context, phase1Playlist,
               phase1Usage, phase2Context, previousResponseId, handlerRuns,
               llmCalls, response, storeBefore, lastSuccess,
               credentialFailed>>
verifyVars == <<vsPc, vsSongs, vsTasks, searchRequests, verifiedSongs,
                plRoute>>
listVars  == <<listPc, listOp, allTracks, listStep, listOutcome, listResult>>
catalogVars == <<verifyVars, listVars>>
cacheVars == <<cacheFile, cacheClock, cacheProcs>>
searchVars == <<spPc, spArgs, spResult>>
playlistVars == <<cacheVars, searchVars>>
uploadVars == <<upPc, upReq, upCreateCalls, upCreated, upOffset, upAdds,
                upResponse>>
twoPhaseVars == <<tpPc, tpTurn, tpReq, tpStore, tpLast, tpLocals, tpCalls,
                  tpResponse>>
libraryVars == <<catalogVars, playlistVars, uploadVars, twoPhaseVars>>
coreVars  == <<tokenVars, costVars, chatVars>>
vars == <<tokenVars, costVars, chatVars, libraryVars>>

-----------------------------------------------------------------------------
(* Bounds *)
NumCallers   == 3
MaxRequests  == 3
MaxTime      == 2
MaxUsages    == 2
MaxTurns     == 2
MaxIntents   == 2
MaxSongs     == 2
MaxItems     == 2
MaxPages     == 2
MaxPageItems == 2
MaxLimit     == 2
NumCacheProcs == 2
MaxClock     == 2
MaxPlaylists == 3
MaxKeywords  == 2
MaxBatches   == 2

-----------------------------------------------------------------------------
(* Token cache: getSpotifyAccessToken *)

\* (expiresIn - 600) * 1000: the safety margin, one unit of 600 s
SafetyMargin == 1

Callers == 1..NumCallers

\* expires_in values the credentials endpoint may answer with (units of
\* 600 s): one that is already stale once the margin is taken off, and one
\* that stays valid for a while.
ExpiresInChoices == {1, 3}

\* process.env.SPOTIFY_CLIENT_ID && process.env.SPOTIFY_CLIENT_SECRET
CredentialsConfigured == TRUE

IdleCaller == [pc |-> "idle", req |-> 0, sawInFlight |-> 0, started |-> FALSE,
               result |-> 0, error |-> "none"]

\* line 43: accessToken && Date.now() < tokenExpiry
CachedTokenValid(tok, expiry, t) == tok # 0 /\ t < expiry

\* line 54: if (tokenPromise)
JoinsInFlightMut(tp) == FALSE
JoinsInFlight(tp) == tp # 0

\* the token a request hands out: response.data.access_token
TokenOf(r) == r

InitToken ==
    /\ accessToken = 0
    /\ tokenExpiry = 0
    /\ tokenPromise = 0
    /\ now = 1
    /\ requests = <<>>
    /\ callers = [c \in Callers |-> IdleCaller]

\* One invocation of getSpotifyAccessToken up to its first await (or to its
\* return when it does not suspend).
GetSpotifyAccessToken(c) ==
    /\ callers[c].pc = "idle"
    /\ IF CachedTokenValid(accessToken, tokenExpiry, now)
       THEN /\ callers' = [callers EXCEPT ![c] =
                   [IdleCaller EXCEPT !.pc = "done", !.result = accessToken]]
            /\ UNCHANGED <<tokenPromise, requests>>
       ELSE IF ~CredentialsConfigured
       THEN /\ callers' = [callers EXCEPT ![c] =
                   [IdleCaller EXCEPT !.pc = "done",
                                      !.error = "not configured"]]
            /\ UNCHANGED <<tokenPromise, requests>>
       ELSE IF JoinsInFlight(tokenPromise)
       THEN /\ callers' = [callers EXCEPT ![c] =
                   [IdleCaller EXCEPT !.pc = "waiting", !.req = tokenPromise,
                                      !.sawInFlight = tokenPromise]]
            /\ UNCHANGED <<tokenPromise, requests>>
       ELSE /\ Len(requests) < MaxRequests
            /\ requests' = Append(requests, [state |-> "pending", token |-> 0])
            /\ tokenPromise' = Len(requests) + 1
            /\ callers' = [callers EXCEPT ![c] =
                   [IdleCaller EXCEPT !.pc = "waiting",
                                      !.req = Len(requests) + 1,
                                      !.sawInFlight = tokenPromise,
                                      !.started = TRUE]]
    /\ UNCHANGED <<accessToken, tokenExpiry, now>>

\* The credentials endpoint answers request r: lines 70-78.
TokenRequestSucceeds(r) ==
    /\ r \in 1..Len(requests)
    /\ requests[r].state = "pending"
    /\ \E expiresIn \in ExpiresInChoices :
          tokenExpiry' = now + (expiresIn - SafetyMargin)
    /\ accessToken' = TokenOf(r)
    /\ tokenPromise' = 0
    /\ requests' = [requests EXCEPT ![r] = [state |-> "ok", token |-> TokenOf(r)]]
    /\ UNCHANGED <<now, callers>>

\* The credentials endpoint fails request r: lines 79-86.
TokenRequestFailsMut(r) ==
    /\ r \in 1..Len(requests)
    /\ requests[r].state = "pending"
    /\ requests' = [requests EXCEPT ![r] = [state |-> "failed", token |-> 0]]
    /\ UNCHANGED <<accessToken, tokenExpiry, tokenPromise, now, callers>>
TokenRequestFails(r) ==
    /\ r \in 1..Len(requests)
    /\ requests[r].state = "pending"
    /\ tokenPromise' = 0
    /\ requests' = [requests EXCEPT ![r] = [state |-> "failed", token |-> 0]]
    /\ UNCHANGED <<accessToken, tokenExpiry, now, callers>>

\* A caller suspended on "await tokenPromise" resumes with the value or the
\* rejection of the promise it awaited.
ResumeCaller(c) ==
    /\ callers[c].pc = "waiting"
    /\ requests[callers[c].req].state # "pending"
    /\ callers' = [callers EXCEPT ![c] =
          [@ EXCEPT !.pc = "done",
                    !.result = requests[callers[c].req].token,
                    !.error = IF requests[callers[c].req].state = "ok"
                              THEN "none"
                              ELSE "Failed to authenticate with Spotify API"]]
    /\ UNCHANGED <<accessToken, tokenExpiry, tokenPromise, now, requests>>

\* The caller's code goes on and may later ask for a token again.
CallerReturns(c) ==
    /\ callers[c].pc = "done"
    /\ Len(requests) < MaxRequests
    /\ callers' = [callers EXCEPT ![c] = IdleCaller]
    /\ UNCHANGED <<accessToken, tokenExpiry, tokenPromise, now, requests>>

Tick ==
    /\ now < MaxTime + 1
    /\ now' = now + 1
    /\ UNCHANGED <<accessToken, tokenExpiry, tokenPromise, requests, callers>>

-----------------------------------------------------------------------------
(* Pricing: getPricing / calculateCost / calculateTotalCost *)

\* A token count that the usage object does not carry (undefined).
Absent == -1

\* x || 0
OrZero(x) == IF x = Absent THEN 0 ELSE x

\* MODEL_PRICING, rates in nano-dollars per token
MODEL_PRICING ==
    [m \in {"gpt-4o", "gpt-4o-mini", "gpt-5", "gpt-5-mini"} |->
        CASE m = "gpt-4o"      -> [input |-> 2500, cached |-> 250, output |-> 10000]
          [] m = "gpt-4o-mini" -> [input |-> 150,  cached |-> 15,  output |-> 600]
          [] m = "gpt-5"       -> [input |-> 1250, cached |-> 125, output |-> 10000]
          [] m = "gpt-5-mini"  -> [input |-> 250,  cached |-> 25,  output |-> 2000]]

getPricing(model) ==
    IF model \in DOMAIN MODEL_PRICING THEN MODEL_PRICING[model]
    ELSE MODEL_PRICING["gpt-4o"]

calculateCost(usage, model) ==
    LET pricing == getPricing(model)
        promptTokens == OrZero(usage.prompt_tokens)
        completionTokens == OrZero(usage.completion_tokens)
        cachedTokens == OrZero(usage.cached_tokens)
        uncachedInputTokens == promptTokens - cachedTokens
    IN  uncachedInputTokens * pricing.input
        + cachedTokens * pricing.cached
        + completionTokens * pricing.output

\* The three accumulators of calculateTotalCost after the forEach has visited
\* the first n usages.
RECURSIVE TotalsAfter(_, _)
TotalsAfter(usages, n) ==
    IF n = 0 THEN [uncached |-> 0, cached |-> 0, output |-> 0]
    ELSE LET acc == TotalsAfter(usages, n - 1)
             usage == usages[n]
             promptTokens == OrZero(usage.prompt_tokens)
             completionTokens == OrZero(usage.completion_tokens)
             cachedTokens == OrZero(usage.cached_tokens)
         IN  [uncached |-> acc.uncached + (promptTokens - cachedTokens),
              cached   |-> acc.cached + cachedTokens,
              output   |-> acc.output + completionTokens]

calculateTotalCostMut(usages, model) ==
    LET pricing == getPricing(model)
        t == TotalsAfter(usages, Len(usages))
    IN  (t.uncached + t.cached) * pricing.input
        + t.cached * pricing.cached
        + t.output * pricing.output

calculateTotalCost(usages, model) ==
    LET pricing == getPricing(model)
        t == TotalsAfter(usages, Len(usages))
    IN  t.uncached * pricing.input
        + t.cached * pricing.cached
        + t.output * pricing.output

\* The usage objects the evaluation is tried on: the two of the spec's
\* example, one with a field missing, one empty object, one all cached.
UsageChoices ==
    { [prompt_tokens |-> 100, completion_tokens |-> 50, cached_tokens |-> 0],
      [prompt_tokens |-> 80,  completion_tokens |-> 40, cached_tokens |-> 20],
      [prompt_tokens |-> 7,   completion_tokens |-> 3,  cached_tokens |-> Absent],
      [prompt_tokens |-> Absent, completion_tokens |-> Absent, cached_tokens |-> Absent],
      [prompt_tokens |-> 5,   completion_tokens |-> 0,  cached_tokens |-> 5] }

ModelChoices == {"gpt-4o", "gpt-4o-mini", "gpt-5", "gpt-5-mini", "gpt-3"}

SeqsUpTo(S, n) == UNION { [1..k -> S] : k \in 0..n }

InitCost ==
    /\ costUsages \in SeqsUpTo(UsageChoices, MaxUsages)
    /\ costModel \in ModelChoices
    /\ costPc = "args"
    /\ costTotal = 0
    /\ costSingle = 0

EvaluateCost ==
    /\ costPc = "args"
    /\ costPc' = "done"
    /\ costTotal' = calculateTotalCost(costUsages, costModel)
    /\ costSingle' = IF Len(costUsages) = 1
                     THEN calculateCost(costUsages[1], costModel)
                     ELSE 0
    /\ UNCHANGED <<costUsages, costModel>>

-----------------------------------------------------------------------------
(* JavaScript values that cross the LLM and client boundaries *)

JStr(chars) == [t |-> "string", v |-> chars]
JUndefined  == [t |-> "undefined", v |-> <<>>]
\* a number other than 0
JNumber     == [t |-> "number", v |-> <<>>]

\* truthiness of a song field: non-empty strings (and nothing else here)
Truthy(x) == x.t = "string" /\ x.v # <<>>

RECURSIVE TrimStart(_)
TrimStart(s) == IF s # <<>> /\ Head(s) = " " THEN TrimStart(Tail(s)) ELSE s

RECURSIVE TrimEnd(_)
TrimEnd(s) ==
    IF s # <<>> /\ s[Len(s)] = " " THEN TrimEnd(SubSeq(s, 1, Len(s) - 1)) ELSE s

\* String.prototype.trim
Trim(s) == TrimEnd(TrimStart(s))

\* responseValidator.js: the songs validateAndFilterSongs returns for a
\* parsedResponse whose songs member is an array
validateAndFilterSongsMut(songs) ==
    LET WellTyped(song) == Truthy(song.song) /\ Truthy(song.artist)
    IN  [i \in 1..Len(SelectSeq(songs, WellTyped)) |->
            LET song == SelectSeq(songs, WellTyped)[i]
            IN  [song   |-> JStr(Trim(song.song.v)),
                 artist |-> JStr(Trim(song.artist.v))]]
validateAndFilterSongs(songs) ==
    LET WellTyped(song) == Truthy(song.song) /\ Truthy(song.artist)
        Trimmed == [i \in 1..Len(SelectSeq(songs, WellTyped)) |->
                      LET song == SelectSeq(songs, WellTyped)[i]
                      IN  [song   |-> JStr(Trim(song.song.v)),
                           artist |-> JStr(Trim(song.artist.v))]]
        NonEmpty(song) == Len(song.song.v) > 0 /\ Len(song.artist.v) > 0
    IN  SelectSeq(Trimmed, NonEmpty)

\* the check the prompt builders make on every song of a playlist:
\* !s || typeof s !== "object" || !s.song || !s.artist
InvalidSongFormat(s) ==
    LET IsTruthy(x) == Truthy(x) \/ x.t = "number"
    IN  ~IsTruthy(s.song) \/ ~IsTruthy(s.artist)

HasInvalidSong(songs) == \E i \in 1..Len(songs) : InvalidSongFormat(songs[i])

\* playlistExtractors.js: extractArtists on songs that all carry an artist
RECURSIVE extractArtists(_)
extractArtists(songs) ==
    IF songs = <<>> THEN <<>>
    ELSE LET rest == extractArtists(SubSeq(songs, 1, Len(songs) - 1))
             artist == Trim(songs[Len(songs)].artist.v)
         IN  IF artist = <<>> \/ \E i \in 1..Len(rest) : rest[i] = artist
             THEN rest
             ELSE Append(rest, artist)

-----------------------------------------------------------------------------
(* Artist matching and track search of routes/spotify.js *)

UpperCaseLetters ==
    <<"A", "B", "C", "D", "E", "F", "G", "H", "I", "J", "K", "L", "M",
      "N", "O", "P", "Q", "R", "S", "T", "U", "V", "W", "X", "Y", "Z">>
LowerCaseLetters ==
    <<"a", "b", "c", "d", "e", "f", "g", "h", "i", "j", "k", "l", "m",
      "n", "o", "p", "q", "r", "s", "t", "u", "v", "w", "x", "y", "z">>

\* String.prototype.toLowerCase
toLowerCase(s) ==
    [i \in 1..Len(s) |->
        IF \E k \in 1..Len(UpperCaseLetters) : UpperCaseLetters[k] = s[i]
        THEN LowerCaseLetters[CHOOSE k \in 1..Len(UpperCaseLetters) :
                                  UpperCaseLetters[k] = s[i]]
        ELSE s[i]]

\* \w of a regular expression without the u flag
IsWordChar(c) ==
    \/ \E k \in 1..Len(LowerCaseLetters) : LowerCaseLetters[k] = c
    \/ \E k \in 1..Len(UpperCaseLetters) : UpperCaseLetters[k] = c
    \/ c \in {"0", "1", "2", "3", "4", "5", "6", "7", "8", "9", "_"}

\* \b between s[k] and s[k+1]; what lies outside the string is not a word
\* character
WordBoundaryAt(s, k) ==
    LET before == k >= 1 /\ IsWordChar(s[k])
        after  == k + 1 <= Len(s) /\ IsWordChar(s[k + 1])
    IN  before # after

\* new RegExp(`\\b${escaped}\\b`, "i").test(s): after the escaping every
\* character of word stands for itself
WordBoundaryRegexTestMut(word, s) ==
    \E k \in 0..(Len(s) - Len(word)) :
        toLowerCase(SubSeq(s, k + 1, k + Len(word))) = toLowerCase(word)
WordBoundaryRegexTest(word, s) ==
    \E k \in 0..(Len(s) - Len(word)) :
        /\ WordBoundaryAt(s, k)
        /\ toLowerCase(SubSeq(s, k + 1, k + Len(word))) = toLowerCase(word)
        /\ WordBoundaryAt(s, k + Len(word))

\* the alternatives of /\s*(?:ft\.?|feat\.?|featuring|&|and)\s+/i
CollaborationWords ==
    { <<"f", "t">>, <<"f", "t", ".">>, <<"f", "e", "a", "t">>,
      <<"f", "e", "a", "t", ".">>,
      <<"f", "e", "a", "t", "u", "r", "i", "n", "g">>,
      <<"&">>, <<"a", "n", "d">> }

\* length of the collaboration word that starts at s[q] and is followed by
\* white space, 0 when there is none (the white space before it belongs to
\* the match, and goes with the trim of the part anyway)
SeparatorAt(s, q) ==
    LET low == toLowerCase(s)
        ws  == { w \in CollaborationWords :
                    /\ q + Len(w) <= Len(s)
                    /\ SubSeq(low, q, q + Len(w) - 1) = w
                    /\ s[q + Len(w)] = " " }
    IN  IF ws = {} THEN 0 ELSE Len(CHOOSE w \in ws : TRUE)

\* artistString.split(...): the parts from s[start] on, the scan being at q
RECURSIVE SplitOnCollaboration(_, _, _)
SplitOnCollaboration(s, start, q) ==
    IF q > Len(s) THEN << SubSeq(s, start, Len(s)) >>
    ELSE IF SeparatorAt(s, q) > 0
    THEN << SubSeq(s, start, q - 1) >>
         \o SplitOnCollaboration(s, q + SeparatorAt(s, q) + 1,
                                 q + SeparatorAt(s, q) + 1)
    ELSE SplitOnCollaboration(s, start, q + 1)

extractArtistsForMatching(artistString) ==
    IF artistString = <<>> THEN <<>>
    ELSE LET split == SplitOnCollaboration(artistString, 1, 1)
             trimmed == [i \in 1..Len(split) |-> Trim(split[i])]
             NonEmpty(a) == Len(a) > 0
             parts == SelectSeq(trimmed, NonEmpty)
         IN  IF Len(parts) > 0 THEN parts ELSE << Trim(artistString) >>

\* trackArtists: the artists member of a catalog track, [name |-> chars]
artistsMatch(requestedArtists, trackArtists) ==
    IF Len(requestedArtists) = 0 THEN TRUE
    ELSE IF Len(trackArtists) = 0 THEN FALSE
    ELSE LET trackArtistNames ==
                 [i \in 1..Len(trackArtists) |->
                     Trim(toLowerCase(trackArtists[i].name))]
         IN  \A r \in 1..Len(requestedArtists) :
                \E t \in 1..Len(trackArtistNames) :
                    WordBoundaryRegexTest(
                        Trim(toLowerCase(requestedArtists[r])),
                        trackArtistNames[t])

\* "no track": the null of searchTrack and of Array.prototype.find
NoTrack == [id |-> 0, artists |-> <<>>]

\* response.data.tracks.items.find((track) =>
\*     artistsMatch(requestedArtists, track.artists)), from items[k] on
RECURSIVE FindMatch(_, _, _)
FindMatch(items, requestedArtists, k) ==
    IF k > Len(items) THEN NoTrack
    ELSE IF artistsMatch(requestedArtists, items[k].artists) THEN items[k]
    ELSE FindMatch(items, requestedArtists, k + 1)

\* what searchTrack returns for the items of a search response
SearchTrackResultMut(items, artistName) ==
    IF Len(items) > 0
    THEN LET match == FindMatch(items, extractArtistsForMatching(artistName), 1)
         IN  IF match # NoTrack THEN match ELSE items[1]
    ELSE NoTrack
SearchTrackResult(items, artistName) ==
    IF Len(items) > 0
    THEN FindMatch(items, extractArtistsForMatching(artistName), 1)
    ELSE NoTrack
-----------------------------------------------------------------------------
(* verifySongs and searchTrack of routes/spotify.js *)

Ana    == <<"A", "n", "a">>
Banana == <<"B", "a", "n", "a", "n", "a">>
Bo     == <<"B", "o">>
Wham   == <<"W", "h", "a", "m", "!">>
AnaAndBo == <<"a", "n", "a", " ", "&", " ", "B", "o", " ">>
Blank  == <<" ">>

\* catalog tracks a search may return
TrackChoices ==
    { [id |-> 1, artists |-> << [name |-> Banana] >>],
      [id |-> 2, artists |-> << [name |-> Ana], [name |-> Bo] >>],
      [id |-> 3, artists |-> << [name |-> Wham] >>] }

\* response.data.tracks.items: tracks in relevance order, none twice
ItemsChoices ==
    { items \in SeqsUpTo(TrackChoices, MaxItems) :
        \A i, j \in 1..Len(items) : i # j => items[i] # items[j] }

\* what the catalog answers to a search request
SearchResponseChoices ==
    { [kind |-> "error", items |-> <<>>], [kind |-> "malformed", items |-> <<>>] }
    \cup { [kind |-> "ok", items |-> items] : items \in ItemsChoices }

\* the elements of req.body.songs
SongInputChoices ==
    { [song |-> JStr(<<"s">>),      artist |-> JStr(Ana)],
      [song |-> JStr(<<" ", "t">>), artist |-> JStr(AnaAndBo)],
      [song |-> JStr(<<"u">>),      artist |-> JStr(Wham)],
      [song |-> JStr(<<"v">>),      artist |-> JStr(Blank)],
      [song |-> JStr(Blank),        artist |-> JStr(Bo)],
      [song |-> JStr(<<"w">>),      artist |-> JStr(<<>>)],
      [song |-> JUndefined,         artist |-> JStr(Bo)],
      [song |-> JNumber,            artist |-> JStr(Bo)] }

\* songData.song.trim() / songData.artist.trim() on a value that is no
\* string throws a TypeError
TrimThrows(songData) ==
    songData.song.t # "string" \/ songData.artist.t # "string"

\* the callback of songs.map throws before its first await
CallbackThrows(songData) == InvalidSongFormat(songData) \/ TrimThrows(songData)

\* the route handler of POST /playlist: pc is awaiting (verifySongs),
\* responded or rejected (its promise rejected); responses counts the
\* responses sent for the request
PlaylistRoute(routePc, responses, status) ==
    [pc |-> routePc, responses |-> responses, status |-> status]

IdlePlaylistRoute == PlaylistRoute("idle", 0, 0)

\* one callback of songs.map(async (songData, index) => ...)
NewTask(songData) ==
    IF CallbackThrows(songData)
    THEN [pc |-> "threw", songName |-> <<>>, artistName |-> <<>>,
          outcome |-> "invalid", items |-> <<>>, track |-> NoTrack]
    ELSE [pc |-> IF CredentialsConfigured THEN "token" ELSE "done",
          songName |-> Trim(songData.song.v),
          artistName |-> Trim(songData.artist.v),
          outcome |-> IF CredentialsConfigured THEN "" ELSE "not_configured",
          items |-> <<>>, track |-> NoTrack]

Settled(task) == task.pc \in {"done", "threw"}

\* the shape of one VerifiedSong
VerifiedSong(task) ==
    [song |-> task.songName, artist |-> task.artistName,
     verified |-> task.track # NoTrack, spotifyId |-> task.track.id]

InitVerifyIdle ==
    /\ vsPc = "idle"
    /\ vsSongs = <<>>
    /\ vsTasks = <<>>
    /\ searchRequests = <<>>
    /\ verifiedSongs = <<>>
    /\ plRoute = IdlePlaylistRoute

\* POST /playlist with a songs array and a session id: verifySongs(songs) runs every callback up to its first await; a callback
\* that throws rejects Promise.all at once, the other callbacks go on
VerifySongs(songs) ==
    /\ vsPc = "idle"
    /\ listPc = "idle"
    /\ vsSongs' = songs
    /\ vsTasks' = [i \in 1..Len(songs) |-> NewTask(songs[i])]
    /\ vsPc' = IF \E i \in 1..Len(songs) : CallbackThrows(songs[i])
               THEN "rejected" ELSE "running"
    /\ searchRequests' = <<>>
    /\ verifiedSongs' = <<>>
    /\ plRoute' = PlaylistRoute("awaiting", 0, 0)

\* await getSpotifyAccessToken() inside searchTrack settles for callback i:
\* with a token the search request is sent, without one the catch returns null
SearchTrackTokenSettles(i, ok) ==
    /\ i \in 1..Len(vsTasks)
    /\ vsTasks[i].pc = "token"
    /\ IF ok
       THEN /\ vsTasks' = [vsTasks EXCEPT ![i].pc = "search"]
            /\ searchRequests' = Append(searchRequests,
                   [index |-> i, songName |-> vsTasks[i].songName,
                    artistName |-> vsTasks[i].artistName])
       ELSE /\ vsTasks' = [vsTasks EXCEPT ![i].pc = "done",
                                          ![i].outcome = "token_error"]
            /\ UNCHANGED searchRequests
    /\ UNCHANGED <<vsPc, vsSongs, verifiedSongs, plRoute>>

\* the search request of callback i settles
SearchTrackResponse(i, resp) ==
    /\ i \in 1..Len(vsTasks)
    /\ vsTasks[i].pc = "search"
    /\ vsTasks' = [vsTasks EXCEPT
                      ![i].pc = "done",
                      ![i].outcome = resp.kind,
                      ![i].items = resp.items,
                      ![i].track = IF resp.kind = "ok"
                                   THEN SearchTrackResult(resp.items,
                                            vsTasks[i].artistName)
                                   ELSE NoTrack]
    /\ UNCHANGED <<vsPc, vsSongs, searchRequests, verifiedSongs, plRoute>>

\* Promise.all resolves and verifySongs returns; the route answers with the
\* playlist of the verified songs
VerifySongsReturns ==
    /\ vsPc = "running"
    /\ \A i \in 1..Len(vsTasks) : vsTasks[i].pc = "done"
    /\ vsPc' = "returned"
    /\ verifiedSongs' = [i \in 1..Len(vsTasks) |-> VerifiedSong(vsTasks[i])]
    /\ plRoute' = PlaylistRoute("responded", plRoute.responses + 1, 200)
    /\ UNCHANGED <<vsSongs, vsTasks, searchRequests>>

\* the catch of the route, entered when verifySongs rejects: the fallback
\* playlist is built with songs.map, whose callback throws on a song of
\* invalid format.  That error leaves the async route handler as a rejected
\* promise; whether the framework turns it into a 500 response (forwarded)
\* or drops it depends on the framework version, which the route does not
\* fix.
PlaylistFallback(forwarded) ==
    /\ vsPc = "rejected"
    /\ plRoute.pc = "awaiting"
    /\ plRoute' =
          IF ~HasInvalidSong(vsSongs)
          THEN PlaylistRoute("responded", plRoute.responses + 1, 200)
          ELSE IF forwarded
          THEN PlaylistRoute("rejected", plRoute.responses + 1, 500)
          ELSE PlaylistRoute("rejected", plRoute.responses, 0)
    /\ UNCHANGED <<vsPc, vsSongs, vsTasks, searchRequests, verifiedSongs>>

\* the route handler has ended and every callback has settled
VerifySongsEnds ==
    /\ vsPc \in {"returned", "rejected"}
    /\ plRoute.pc \in {"responded", "rejected"}
    /\ \A i \in 1..Len(vsTasks) : Settled(vsTasks[i])
    /\ vsPc' = "idle"
    /\ vsSongs' = <<>>
    /\ vsTasks' = <<>>
    /\ searchRequests' = <<>>
    /\ verifiedSongs' = <<>>
    /\ plRoute' = IdlePlaylistRoute
-----------------------------------------------------------------------------
(* The list operations of routes/spotify.js: getPopularTracks,             *)
(* getPopularArtists, getTopTracksForArtists, getTracksFromPlaylist        *)

\* Catalog tracks are known by their id; 0 is a playlist item without a
\* track.  A track's artists are kept as the list that
\* artists.map((a) => a.name).join(", ") and split(", ") go through.
TrackIds == {1, 2, 3}
PopularityOf(id) == IF id = 2 THEN 9 ELSE 5
ArtistsOf(id) == IF id = 1 THEN <<"x">> ELSE IF id = 2 THEN <<"x", "y">> ELSE <<"z">>

\* one page of /playlists/{id}/tracks: data.items and data.next
PageChoices ==
    { [kind |-> "error", items |-> <<>>, next |-> FALSE] }
    \cup { [kind |-> "ok", items |-> items, next |-> n] :
             items \in SeqsUpTo(TrackIds \cup {0}, MaxPageItems), n \in BOOLEAN }

\* the limit the paginated fetch of getPopularArtists asks for
PopularArtistsTrackLimit == 100

ListOpChoices ==
    { [name |-> n, limit |-> l, artistNames |-> <<>>] :
        n \in {"getPopularTracks", "getTracksFromPlaylist", "getPopularArtists"},
        l \in 1..MaxLimit }
    \cup { [name |-> "getTopTracksForArtists", limit |-> l, artistNames |-> a] :
             l \in 1..MaxLimit, a \in {<<>>, <<"x">>, <<"x", "z">>} }

\* /artists/{id}/top-tracks: data.tracks, or a failed request
TopTracksChoices ==
    { [kind |-> "error", items |-> <<>>] }
    \cup { [kind |-> "ok", items |-> items] :
             items \in SeqsUpTo(TrackIds, MaxPageItems) }

NoListOp == [name |-> "", limit |-> 0, artistNames |-> <<>>]

\* the limit of the paginated loop of op
PageLimit(op) ==
    IF op.name = "getPopularArtists" THEN PopularArtistsTrackLimit ELSE op.limit

\* items.filter((item) => item.track && item.track.id).map(...)
TracksOfPage(items) == LET HasTrack(id) == id # 0 IN SelectSeq(items, HasTrack)

\* Array.from(new Map(tracks.map((t) => [t.id, t])).values()): one entry per
\* id, at the place of its first occurrence
RECURSIVE UniqueById(_)
UniqueById(tracks) ==
    IF tracks = <<>> THEN <<>>
    ELSE LET rest == UniqueById(SubSeq(tracks, 1, Len(tracks) - 1))
             last == tracks[Len(tracks)]
         IN  IF \E i \in 1..Len(rest) : rest[i] = last THEN rest
             ELSE Append(rest, last)

\* Array.prototype.sort by a numeric key, descending, on [key, val] pairs;
\* the sort is stable: each element goes after those that are not smaller
RECURSIVE SortDescending(_)
SortDescending(s) ==
    IF s = <<>> THEN <<>>
    ELSE LET rest == SortDescending(SubSeq(s, 1, Len(s) - 1))
             x == s[Len(s)]
             n == Cardinality({ i \in 1..Len(rest) : rest[i].key >= x.key })
         IN  SubSeq(rest, 1, n) \o <<x>> \o SubSeq(rest, n + 1, Len(rest))

\* uniqueTracks.sort((a, b) => b.popularity - a.popularity)
SortByPopularity(tracks) ==
    LET sorted == SortDescending([i \in 1..Len(tracks) |->
                      [key |-> PopularityOf(tracks[i]), val |-> tracks[i]]])
    IN  [i \in 1..Len(sorted) |-> sorted[i].val]

\* slice(0, limit) for a limit that is not negative
Slice(s, limit) == SubSeq(s, 1, IF limit < Len(s) THEN limit ELSE Len(s))

\* getPopularArtists: the artists of the tracks in order of first mention,
\* with their track counts, sorted by track count
RECURSIVE ArtistMentions(_)
ArtistMentions(tracks) ==
    IF tracks = <<>> THEN <<>>
    ELSE ArtistsOf(Head(tracks)) \o ArtistMentions(Tail(tracks))

PopularArtistsOf(tracks, limit) ==
    LET mentions == ArtistMentions(tracks)
        names == UniqueById(mentions)
        TrackCount(a) == Cardinality({ i \in 1..Len(mentions) : mentions[i] = a })
        counted == [i \in 1..Len(names) |->
                       [name |-> names[i], trackCount |-> TrackCount(names[i])]]
        sorted == SortDescending([i \in 1..Len(counted) |->
                      [key |-> counted[i].trackCount, val |-> counted[i]]])
    IN  Slice([i \in 1..Len(sorted) |-> sorted[i].val], limit)

\* what a paginated operation returns once its loop has ended normally
ListResult(op, tracks) ==
    CASE op.name = "getPopularTracks" ->
            Slice(SortByPopularity(UniqueById(tracks)), op.limit)
      [] op.name = "getTracksFromPlaylist" -> Slice(tracks, op.limit)
      [] op.name = "getPopularArtists" ->
            PopularArtistsOf(
                Slice(SortByPopularity(UniqueById(tracks)),
                      PopularArtistsTrackLimit),
                op.limit)
      [] OTHER -> tracks

\* the outer catch block of a list operation: the error is logged and the
\* operation returns [], whatever it had fetched
ListCatchMut(op, tracks) == [pc |-> "threw", result |-> <<>>]
ListCatch(op, tracks) == [pc |-> "returned", result |-> <<>>]

InitListIdle ==
    /\ listPc = "idle"
    /\ listOp = NoListOp
    /\ allTracks = <<>>
    /\ listStep = 0
    /\ listOutcome = ""
    /\ listResult = <<>>

\* one of the list operations is called
CallListOperation(op) ==
    /\ listPc = "idle"
    /\ vsPc = "idle"
    /\ listOp' = op
    /\ allTracks' = <<>>
    /\ listStep' = 0
    /\ listResult' = <<>>
    /\ IF ~CredentialsConfigured
          \/ (op.name = "getTopTracksForArtists" /\ Len(op.artistNames) = 0)
       THEN /\ listPc' = "returned"
            /\ listOutcome' = "nothing_to_do"
       ELSE /\ listPc' = "token"
            /\ listOutcome' = ""

\* await getSpotifyAccessToken() settles inside the try block
ListTokenSettles(ok) ==
    /\ listPc = "token"
    /\ IF ok
       THEN /\ listPc' = IF listOp.name = "getTopTracksForArtists"
                         THEN "artist_search" ELSE "page"
            /\ listStep' = 1
            /\ UNCHANGED <<listOutcome, listResult>>
       ELSE /\ listPc' = ListCatch(listOp, allTracks).pc
            /\ listResult' = ListCatch(listOp, allTracks).result
            /\ listOutcome' = "token_error"
            /\ UNCHANGED listStep
    /\ UNCHANGED <<listOp, allTracks>>

\* the request for page listStep settles
PageSettles(page) ==
    /\ listPc = "page"
    /\ page.next => listStep < MaxPages
    /\ IF page.kind = "error"
       THEN /\ listPc' = ListCatch(listOp, allTracks).pc
            /\ listResult' = ListCatch(listOp, allTracks).result
            /\ listOutcome' = "page_error"
            /\ UNCHANGED <<allTracks, listStep>>
       ELSE LET tracks == allTracks \o TracksOfPage(page.items)
            IN  /\ allTracks' = tracks
                /\ IF Len(tracks) >= PageLimit(listOp) \/ ~page.next
                   THEN /\ listPc' = "returned"
                        /\ listResult' = ListResult(listOp, tracks)
                        /\ listOutcome' = "ok"
                        /\ UNCHANGED listStep
                   ELSE /\ listStep' = listStep + 1
                        /\ UNCHANGED <<listPc, listResult, listOutcome>>
    /\ UNCHANGED listOp

\* getTopTracksForArtists: after artist listStep the loop goes on or ends
NextArtist(tracks) ==
    /\ allTracks' = tracks
    /\ IF listStep < Len(listOp.artistNames)
       THEN /\ listStep' = listStep + 1
            /\ listPc' = "artist_search"
            /\ UNCHANGED <<listResult, listOutcome>>
       ELSE /\ listPc' = "returned"
            /\ listResult' = tracks
            /\ listOutcome' = "ok"
            /\ UNCHANGED listStep
    /\ UNCHANGED listOp

\* the artist search of getTopTracksForArtists settles: an error lands in
\* the inner catch, an unknown artist is skipped
ArtistSearchSettles(kind) ==
    /\ listPc = "artist_search"
    /\ IF kind = "found"
       THEN /\ listPc' = "top_tracks"
            /\ UNCHANGED <<listOp, allTracks, listStep, listResult, listOutcome>>
       ELSE NextArtist(allTracks)

\* the top-tracks request of getTopTracksForArtists settles
TopTracksSettle(resp) ==
    /\ listPc = "top_tracks"
    /\ NextArtist(IF resp.kind = "ok"
                  THEN allTracks \o Slice(resp.items, listOp.limit)
                  ELSE allTracks)

\* the caller is done with the result
ListOperationEnds ==
    /\ listPc \in {"returned", "threw"}
    /\ listPc' = "idle"
    /\ listOp' = NoListOp
    /\ allTracks' = <<>>
    /\ listStep' = 0
    /\ listOutcome' = ""
    /\ listResult' = <<>>
-----------------------------------------------------------------------------
(* The catalog client as a whole: a verification or a list operation *)

InitCatalogIdle == InitVerifyIdle /\ InitListIdle

NextCatalog ==
    \/ \E songs \in SeqsUpTo(SongInputChoices, MaxSongs) :
          VerifySongs(songs) /\ UNCHANGED <<listVars, coreVars, playlistVars, uploadVars, twoPhaseVars>>
    \/ \E i \in 1..MaxSongs, ok \in BOOLEAN :
          SearchTrackTokenSettles(i, ok) /\ UNCHANGED <<listVars, coreVars, playlistVars, uploadVars, twoPhaseVars>>
    \/ \E i \in 1..MaxSongs, resp \in SearchResponseChoices :
          SearchTrackResponse(i, resp) /\ UNCHANGED <<listVars, coreVars, playlistVars, uploadVars, twoPhaseVars>>
    \/ VerifySongsReturns /\ UNCHANGED <<listVars, coreVars, playlistVars, uploadVars, twoPhaseVars>>
    \/ \E forwarded \in BOOLEAN :
          PlaylistFallback(forwarded) /\ UNCHANGED <<listVars, coreVars, playlistVars, uploadVars, twoPhaseVars>>
    \/ VerifySongsEnds /\ UNCHANGED <<listVars, coreVars, playlistVars, uploadVars, twoPhaseVars>>
    \/ \E op \in ListOpChoices :
          CallListOperation(op) /\ UNCHANGED <<verifyVars, coreVars, playlistVars, uploadVars, twoPhaseVars>>
    \/ \E ok \in BOOLEAN :
          ListTokenSettles(ok) /\ UNCHANGED <<verifyVars, coreVars, playlistVars, uploadVars, twoPhaseVars>>
    \/ \E page \in PageChoices :
          PageSettles(page) /\ UNCHANGED <<verifyVars, coreVars, playlistVars, uploadVars, twoPhaseVars>>
    \/ \E kind \in {"found", "not_found", "error"} :
          ArtistSearchSettles(kind) /\ UNCHANGED <<verifyVars, coreVars, playlistVars, uploadVars, twoPhaseVars>>
    \/ \E resp \in TopTracksChoices :
          TopTracksSettle(resp) /\ UNCHANGED <<verifyVars, coreVars, playlistVars, uploadVars, twoPhaseVars>>
    \/ ListOperationEnds /\ UNCHANGED <<verifyVars, coreVars, playlistVars, uploadVars, twoPhaseVars>>

-----------------------------------------------------------------------------
(* The playlist cache of routes/utils/playlistCache.js: the snapshot file  *)
(* and concurrent calls of getCachedPlaylists, needsRefresh, refreshCache  *)

\* the 24 hours of needsRefresh, in units of 24 hours
CacheTtl == 1

CacheProcs == 1..NumCacheProcs

PlaylistIds == {1}

\* cache.lastCacheUpdate of a snapshot without one
NoUpdate == Absent

\* the snapshot file.  state: absent, whole (the JSON text of one saveCache),
\* truncated (opened for writing, nothing written yet), torn (text of one
\* write over the longer text of another), corrupt (not JSON to begin with).
\* size orders the lengths of the texts.
CacheFileValue(state, playlists, lastCacheUpdate) ==
    [state |-> state, playlists |-> playlists,
     lastCacheUpdate |-> lastCacheUpdate, size |-> Len(playlists)]

AbsentFile == CacheFileValue("absent", <<>>, NoUpdate)

InitialFileChoices ==
    { AbsentFile,
      CacheFileValue("whole", <<1>>, 0),
      CacheFileValue("whole", <<1>>, NoUpdate),
      CacheFileValue("corrupt", <<>>, NoUpdate) }

\* JSON.parse succeeds on the text of the file
Parses(file) == file.state = "whole"

\* one page of /users/{id}/playlists: data.items and data.next, which is
\* a link ("url"), null, or not in the response ("missing")
PlaylistPageChoices ==
    { [kind |-> "error", items |-> <<>>, next |-> "null"] }
    \cup { [kind |-> "ok", items |-> items, next |-> n] :
             items \in {<<>>} \cup { <<id>> : id \in PlaylistIds },
             n \in {"url", "null", "missing"} }

\* hasMore = response.data.next !== null
HasMore(page) == page.next # "null"

\* a call into the module.  seen is the state of the file its read found,
\* age the time since the last update that read found (NoUpdate without
\* one), stale what needsRefresh returned, result the playlists returned,
\* replaced whether the write of refreshCache left the file holding exactly
\* the snapshot of this refresh, failed whether a page request of the
\* enumeration failed (the catch of fetchUserPlaylists)
IdleCacheProc ==
    [op |-> "", pc |-> "idle", fetched |-> <<>>, page |-> 0,
     seen |-> "", age |-> NoUpdate, result |-> <<>>, stale |-> FALSE,
     replaced |-> FALSE, failed |-> FALSE]

\* now - lastUpdate for the file a read returned
AgeOf(file, nowClock) ==
    IF file.state = "whole" /\ file.lastCacheUpdate # NoUpdate
    THEN nowClock - file.lastCacheUpdate
    ELSE NoUpdate

\* hoursSinceUpdate > 24
CacheIsStaleMut(lastCacheUpdate, nowClock) == nowClock - lastCacheUpdate >= CacheTtl
CacheIsStale(lastCacheUpdate, nowClock) == nowClock - lastCacheUpdate > CacheTtl

\* needsRefresh on the file content its read returned, at nowClock
NeedsRefreshResult(file, nowClock) ==
    IF file.state = "absent" THEN TRUE
    ELSE IF ~Parses(file) THEN TRUE
    ELSE IF file.lastCacheUpdate = NoUpdate THEN TRUE
    ELSE CacheIsStale(file.lastCacheUpdate, nowClock)

\* fs.writeFile writes its text from offset 0 into the file as it is then:
\* a shorter text over a longer one leaves the tail of the longer one
FileAfterWrite(file, playlists, stamp) ==
    IF Len(playlists) >= file.size
    THEN CacheFileValue("whole", playlists, stamp)
    ELSE [state |-> "torn", playlists |-> <<>>, lastCacheUpdate |-> NoUpdate,
          size |-> file.size]

InitCacheIdle ==
    /\ cacheFile = AbsentFile
    /\ cacheClock = 0
    /\ cacheProcs = [p \in CacheProcs |-> IdleCacheProc]

InitCache ==
    /\ cacheFile \in InitialFileChoices
    /\ cacheClock = 0
    /\ cacheProcs = [p \in CacheProcs |-> IdleCacheProc]

\* getCachedPlaylists() or needsRefresh() is called: loadCache starts to read
CallCacheRead(p, op) ==
    /\ cacheProcs[p].pc = "idle"
    /\ cacheProcs' = [cacheProcs EXCEPT ![p] =
                         [IdleCacheProc EXCEPT !.op = op, !.pc = "reading"]]
    /\ UNCHANGED <<cacheFile, cacheClock>>

\* fs.readFile settles with the file as it is now
CacheReadSettles(p) ==
    /\ cacheProcs[p].pc = "reading"
    /\ LET proc == [cacheProcs[p] EXCEPT !.seen = cacheFile.state,
                                       !.age = AgeOf(cacheFile, cacheClock)]
       IN  cacheProcs' = [cacheProcs EXCEPT ![p] =
              IF proc.op = "needsRefresh"
              THEN [proc EXCEPT !.pc = "returned",
                                !.stale = NeedsRefreshResult(cacheFile, cacheClock)]
              ELSE IF cacheFile.state = "absent"
              THEN [proc EXCEPT !.pc = "returned", !.result = <<>>]
              ELSE IF Parses(cacheFile)
              THEN [proc EXCEPT !.pc = "returned", !.result = cacheFile.playlists]
              ELSE [IdleCacheProc EXCEPT !.op = proc.op, !.pc = "threw",
                                         !.seen = cacheFile.state]]
    /\ UNCHANGED <<cacheFile, cacheClock>>

\* refreshCache(accessToken) is called: fetchUserPlaylists requests page 1
CallRefreshCache(p) ==
    /\ cacheProcs[p].pc = "idle"
    /\ cacheProcs' = [cacheProcs EXCEPT ![p] =
                         [IdleCacheProc EXCEPT !.op = "refreshCache",
                                               !.pc = "fetching", !.page = 1]]
    /\ UNCHANGED <<cacheFile, cacheClock>>

\* a page of fetchUserPlaylists settles: an error ends the loop with what
\* was fetched; after the loop saveCache calls fs.mkdir
PlaylistPageSettles(p, page) ==
    /\ cacheProcs[p].pc = "fetching"
    /\ (page.kind = "ok" /\ HasMore(page)) => cacheProcs[p].page < MaxPages
    /\ cacheProcs' = [cacheProcs EXCEPT ![p] =
          IF page.kind = "error"
          THEN [@ EXCEPT !.pc = "mkdir", !.failed = TRUE]
          ELSE IF HasMore(page)
          THEN [@ EXCEPT !.fetched = @ \o page.items, !.page = @ + 1]
          ELSE [@ EXCEPT !.fetched = @ \o page.items, !.pc = "mkdir"]]
    /\ UNCHANGED <<cacheFile, cacheClock>>

\* fs.mkdir settles: cacheData gets its time stamp (the clock does not
\* advance during a call) and fs.writeFile is called
CacheMkdirSettles(p, ok) ==
    /\ cacheProcs[p].pc = "mkdir"
    /\ cacheProcs' = [cacheProcs EXCEPT ![p] =
          IF ok THEN [@ EXCEPT !.pc = "opening"]
          ELSE [IdleCacheProc EXCEPT !.op = "refreshCache", !.pc = "threw"]]
    /\ UNCHANGED <<cacheFile, cacheClock>>

\* fs.writeFile opens the file with flag "w": the file is created or emptied
CacheWriteOpens(p, ok) ==
    /\ cacheProcs[p].pc = "opening"
    /\ IF ok
       THEN /\ cacheFile' = CacheFileValue("truncated", <<>>, NoUpdate)
            /\ cacheProcs' = [cacheProcs EXCEPT ![p].pc = "writing"]
       ELSE /\ cacheProcs' = [cacheProcs EXCEPT ![p] =
                   [IdleCacheProc EXCEPT !.op = "refreshCache", !.pc = "threw"]]
            /\ UNCHANGED cacheFile
    /\ UNCHANGED cacheClock

\* fs.writeFile writes the text and settles; refreshCache returns playlists
CacheWriteCompletes(p) ==
    /\ cacheProcs[p].pc = "writing"
    /\ cacheFile' = FileAfterWrite(cacheFile, cacheProcs[p].fetched, cacheClock)
    /\ cacheProcs' = [cacheProcs EXCEPT
          ![p].pc = "returned",
          ![p].result = cacheProcs[p].fetched,
          ![p].replaced =
              (cacheFile' = CacheFileValue("whole", cacheProcs[p].fetched,
                                           cacheClock))]
    /\ UNCHANGED cacheClock

\* the caller is done with the call
CacheCallEnds(p) ==
    /\ cacheProcs[p].pc \in {"returned", "threw"}
    /\ cacheProcs' = [cacheProcs EXCEPT ![p] = IdleCacheProc]
    /\ UNCHANGED <<cacheFile, cacheClock>>

\* time passes; a unit of the clock is far longer than a call, so the
\* clock advances between calls
CacheTick ==
    /\ cacheClock < MaxClock
    /\ \A p \in CacheProcs : cacheProcs[p].pc = "idle"
    /\ cacheClock' = cacheClock + 1
    /\ UNCHANGED <<cacheFile, cacheProcs>>

NextCache ==
    \/ \E p \in CacheProcs, op \in {"getCachedPlaylists", "needsRefresh"} :
          CallCacheRead(p, op) /\ UNCHANGED <<coreVars, catalogVars, searchVars, uploadVars, twoPhaseVars>>
    \/ \E p \in CacheProcs : CacheReadSettles(p) /\ UNCHANGED <<coreVars, catalogVars, searchVars, uploadVars, twoPhaseVars>>
    \/ \E p \in CacheProcs : CallRefreshCache(p) /\ UNCHANGED <<coreVars, catalogVars, searchVars, uploadVars, twoPhaseVars>>
    \/ \E p \in CacheProcs, page \in PlaylistPageChoices :
          PlaylistPageSettles(p, page) /\ UNCHANGED <<coreVars, catalogVars, searchVars, uploadVars, twoPhaseVars>>
    \/ \E p \in CacheProcs, ok \in BOOLEAN :
          CacheMkdirSettles(p, ok) /\ UNCHANGED <<coreVars, catalogVars, searchVars, uploadVars, twoPhaseVars>>
    \/ \E p \in CacheProcs, ok \in BOOLEAN :
          CacheWriteOpens(p, ok) /\ UNCHANGED <<coreVars, catalogVars, searchVars, uploadVars, twoPhaseVars>>
    \/ \E p \in CacheProcs : CacheWriteCompletes(p) /\ UNCHANGED <<coreVars, catalogVars, searchVars, uploadVars, twoPhaseVars>>
    \/ \E p \in CacheProcs : CacheCallEnds(p) /\ UNCHANGED <<coreVars, catalogVars, searchVars, uploadVars, twoPhaseVars>>
    \/ CacheTick /\ UNCHANGED <<coreVars, catalogVars, searchVars, uploadVars, twoPhaseVars>>


-----------------------------------------------------------------------------
(* Playlist cache: searchPlaylists *)

\* cached playlists: id, name and description
PlaylistChoices ==
    { [id |-> 1, name |-> Ana,    description |-> <<>>],
      [id |-> 2, name |-> Banana, description |-> <<>>],
      [id |-> 3, name |-> Ana,    description |-> <<>>],
      [id |-> 4, name |-> Bo,     description |-> Ana],
      [id |-> 5, name |-> Wham,   description |-> <<>>],
      [id |-> 6, name |-> Wham,   description |-> Banana] }

KeywordChoices == {Ana, Bo}

\* the playlists argument: distinct playlist objects
PlaylistsChoices ==
    { ps \in SeqsUpTo(PlaylistChoices, MaxPlaylists) :
        \A i, j \in 1..Len(ps) : i # j => ps[i].id # ps[j].id }

NoSearchArgs == [playlists |-> <<>>, keywords |-> <<>>, limit |-> 0]

\* String.prototype.includes
Includes(s, part) ==
    \E k \in 0..(Len(s) - Len(part)) : SubSeq(s, k + 1, k + Len(part)) = part

\* what one keyword adds to the score of a playlist
KeywordScore(playlist, keyword) ==
    LET playlistName == toLowerCase(playlist.name)
        playlistDesc == toLowerCase(playlist.description)
        keywordLower == toLowerCase(keyword)
    IN  (IF WordBoundaryRegexTest(keywordLower, playlistName) THEN 15 ELSE 0)
      + (IF Includes(playlistName, keywordLower) THEN 10 ELSE 0)
      + (IF WordBoundaryRegexTest(keywordLower, playlistDesc) THEN 8 ELSE 0)
      + (IF Includes(playlistDesc, keywordLower) THEN 5 ELSE 0)

\* score after keywords.forEach
RECURSIVE PlaylistScore(_, _)
PlaylistScore(playlist, keywords) ==
    IF keywords = <<>> THEN 0
    ELSE PlaylistScore(playlist, SubSeq(keywords, 1, Len(keywords) - 1))
         + KeywordScore(playlist, keywords[Len(keywords)])

\* Array.from(scores.entries()): the playlists with a positive score, in
\* the order of playlists
ScoredPlaylistsMut(playlists, keywords) ==
    [i \in 1..Len(playlists) |->
        [key |-> PlaylistScore(playlists[i], keywords), val |-> playlists[i]]]
ScoredPlaylists(playlists, keywords) ==
    LET Positive(entry) == entry.key > 0
    IN  SelectSeq([i \in 1..Len(playlists) |->
                     [key |-> PlaylistScore(playlists[i], keywords),
                      val |-> playlists[i]]], Positive)

searchPlaylists(playlists, keywords, limit) ==
    IF keywords = <<>> THEN <<>>
    ELSE LET top == Slice(SortDescending(ScoredPlaylists(playlists, keywords)),
                          limit)
         IN  [i \in 1..Len(top) |-> top[i].val]

InitSearchIdle ==
    /\ spPc = "idle"
    /\ spArgs = NoSearchArgs
    /\ spResult = <<>>

\* searchPlaylists(playlists, keywords, limit) is called and returns
CallSearchPlaylists(playlists, keywords, limit) ==
    /\ spPc = "idle"
    /\ spPc' = "returned"
    /\ spArgs' = [playlists |-> playlists, keywords |-> keywords, limit |-> limit]
    /\ spResult' = searchPlaylists(playlists, keywords, limit)

\* the caller is done with the result
SearchPlaylistsEnds ==
    /\ spPc = "returned"
    /\ spPc' = "idle"
    /\ spArgs' = NoSearchArgs
    /\ spResult' = <<>>

NextSearch ==
    \/ \E playlists \in PlaylistsChoices,
          keywords \in SeqsUpTo(KeywordChoices, MaxKeywords),
          limit \in 0..MaxLimit :
          CallSearchPlaylists(playlists, keywords, limit)
             /\ UNCHANGED <<coreVars, catalogVars, cacheVars, uploadVars, twoPhaseVars>>
    \/ SearchPlaylistsEnds /\ UNCHANGED <<coreVars, catalogVars, cacheVars, uploadVars, twoPhaseVars>>

-----------------------------------------------------------------------------
(* The upload route of routes/spotify.js: router.post("/upload") *)

\* Spotify API allows max 100 tracks per request
BatchSize == 100

\* song.spotifyId of a song without one
NoSpotifyId == 0

\* playlist.songs of n songs: every song verified with an id ("all"), no
\* song verified ("none"), or in turn an unverified song that has an id, a
\* verified song without id and a verified song with id ("mixed")
UploadSongs(n, pattern) ==
    [i \in 1..n |->
        CASE pattern = "all"  -> [verified |-> TRUE, spotifyId |-> i]
          [] pattern = "none" -> [verified |-> FALSE, spotifyId |-> NoSpotifyId]
          [] OTHER ->
               IF i % 3 = 1 THEN [verified |-> FALSE, spotifyId |-> i]
               ELSE IF i % 3 = 2 THEN [verified |-> TRUE, spotifyId |-> NoSpotifyId]
               ELSE [verified |-> TRUE, spotifyId |-> i]]

UploadSizeChoices ==
    {0, 2, 5, BatchSize, BatchSize + 1, MaxBatches * BatchSize,
     MaxBatches * BatchSize + 1, 3 * BatchSize + 3}

\* req.body: sessionId "" is a missing one, "expired" one whose token
\* getUserAccessToken does not return; songsAreObjects is false for a
\* playlist whose songs are missing or hold null, on which the filter throws
\* a TypeError (for every other JSON value the typeof test changes nothing:
\* a primitive has no verified property)
UploadRequestChoices ==
    [ hasPlaylist : {TRUE},
      songsAreObjects : {TRUE},
      songs : { UploadSongs(n, pattern) :
                   n \in UploadSizeChoices, pattern \in {"all", "none", "mixed"} },
      sessionId : {"", "expired", "sp1"} ]
    \cup [ hasPlaylist : {TRUE}, songsAreObjects : {FALSE}, songs : {<<>>},
           sessionId : {"sp1"} ]
    \cup [ hasPlaylist : {FALSE}, songsAreObjects : {FALSE}, songs : {<<>>},
           sessionId : {"", "sp1"} ]

NoUploadRequest ==
    [hasPlaylist |-> FALSE, songsAreObjects |-> FALSE, songs |-> <<>>,
     sessionId |-> ""]

UploadResponse(status, error, trackCount) ==
    [status |-> status, error |-> error, trackCount |-> trackCount]

NoUploadResponse == UploadResponse(0, "", 0)

\* getUserAccessToken(sessionId): null for an unknown or expired session
getUserAccessToken(sessionId) == IF sessionId = "sp1" THEN "token" ELSE ""

\* playlist.songs.filter((song) => typeof song === "object" && song.verified
\* && song.spotifyId).map(...): the ids of the track URIs
trackUrisMut(songs) ==
    LET HasId(song) == song.spotifyId # NoSpotifyId
        kept == SelectSeq(songs, HasId)
    IN  [i \in 1..Len(kept) |-> kept[i].spotifyId]
trackUris(songs) ==
    LET Qualifies(song) == song.verified /\ song.spotifyId # NoSpotifyId
        kept == SelectSeq(songs, Qualifies)
    IN  [i \in 1..Len(kept) |-> kept[i].spotifyId]

\* trackUris.slice(i, i + batchSize)
UploadBatch(uris, i) ==
    SubSeq(uris, i + 1, IF i + BatchSize < Len(uris) THEN i + BatchSize ELSE Len(uris))

InitUploadIdle ==
    /\ upPc = "idle"
    /\ upReq = NoUploadRequest
    /\ upCreateCalls = 0
    /\ upCreated = FALSE
    /\ upOffset = 0
    /\ upAdds = <<>>
    /\ upResponse = NoUploadResponse

\* A request arrives: the checks of the body and of the session, then the
\* request for the current user.
Upload(r) ==
    /\ upPc = "idle"
    /\ upReq' = r
    /\ upCreateCalls' = 0
    /\ upCreated' = FALSE
    /\ upOffset' = 0
    /\ upAdds' = <<>>
    /\ IF ~r.hasPlaylist
       THEN /\ upPc' = "done"
            /\ upResponse' = UploadResponse(400, "Playlist is required", 0)
       ELSE IF r.sessionId = ""
       THEN /\ upPc' = "done"
            /\ upResponse' = UploadResponse(401, "User not authenticated. Please log in to Spotify.", 0)
       ELSE IF getUserAccessToken(r.sessionId) = ""
       THEN /\ upPc' = "done"
            /\ upResponse' = UploadResponse(401, "Session expired. Please log in again.", 0)
       ELSE /\ upPc' = "await_me"
            /\ upResponse' = NoUploadResponse

UploadFails ==
    /\ upPc' = "done"
    /\ upResponse' = UploadResponse(500, "Failed to upload playlist to Spotify", 0)

\* GET /me settles: the creation request is sent
UploadUserSettles(ok) ==
    /\ upPc = "await_me"
    /\ IF ok
       THEN /\ upPc' = "await_create"
            /\ upCreateCalls' = upCreateCalls + 1
            /\ UNCHANGED upResponse
       ELSE /\ UploadFails
            /\ UNCHANGED upCreateCalls
    /\ UNCHANGED <<upReq, upCreated, upOffset, upAdds>>

\* the creation request settles: the songs are filtered, and without track
\* URIs the route answers 400, otherwise it sends the first batch
UploadCreateSettles(ok) ==
    /\ upPc = "await_create"
    /\ IF ~ok
       THEN /\ UploadFails
            /\ UNCHANGED <<upCreated, upAdds>>
       ELSE /\ upCreated' = TRUE
            /\ IF ~upReq.songsAreObjects
               THEN /\ UploadFails
                    /\ UNCHANGED upAdds
               ELSE IF trackUris(upReq.songs) = <<>>
               THEN /\ upPc' = "done"
                    /\ upResponse' =
                          UploadResponse(400, "No verified songs to upload", 0)
                    /\ UNCHANGED upAdds
               ELSE /\ upPc' = "await_add"
                    /\ upAdds' = <<UploadBatch(trackUris(upReq.songs), 0)>>
                    /\ UNCHANGED upResponse
    /\ UNCHANGED <<upReq, upCreateCalls, upOffset>>

\* an add request settles: the next batch is sent, or the route answers
UploadAddSettles(ok) ==
    /\ upPc = "await_add"
    /\ IF ~ok
       THEN /\ UploadFails
            /\ UNCHANGED <<upOffset, upAdds>>
       ELSE LET uris == trackUris(upReq.songs)
                i == upOffset + BatchSize
            IN  /\ upOffset' = i
                /\ IF i < Len(uris)
                   THEN /\ upAdds' = Append(upAdds, UploadBatch(uris, i))
                        /\ UNCHANGED <<upPc, upResponse>>
                   ELSE /\ upPc' = "done"
                        /\ upResponse' = UploadResponse(200, "", Len(uris))
                        /\ UNCHANGED upAdds
    /\ UNCHANGED <<upReq, upCreateCalls, upCreated>>

\* the route handler has answered and returned
UploadEnds ==
    /\ upPc = "done"
    /\ upPc' = "idle"
    /\ upReq' = NoUploadRequest
    /\ upCreateCalls' = 0
    /\ upCreated' = FALSE
    /\ upOffset' = 0
    /\ upAdds' = <<>>
    /\ upResponse' = NoUploadResponse

NextUpload ==
    \/ \E r \in UploadRequestChoices :
          Upload(r) /\ UNCHANGED <<coreVars, catalogVars, playlistVars, twoPhaseVars>>
    \/ \E ok \in BOOLEAN :
          UploadUserSettles(ok) /\ UNCHANGED <<coreVars, catalogVars, playlistVars, twoPhaseVars>>
    \/ \E ok \in BOOLEAN :
          UploadCreateSettles(ok) /\ UNCHANGED <<coreVars, catalogVars, playlistVars, twoPhaseVars>>
    \/ \E ok \in BOOLEAN :
          UploadAddSettles(ok) /\ UNCHANGED <<coreVars, catalogVars, playlistVars, twoPhaseVars>>
    \/ UploadEnds /\ UNCHANGED <<coreVars, catalogVars, playlistVars, twoPhaseVars>>

-----------------------------------------------------------------------------
(* Inputs of a chat turn *)

SongA == [song |-> JStr(<<"a">>),      artist |-> JStr(<<"x">>)]
SongB == [song |-> JStr(<<" ", "b">>), artist |-> JStr(<<"y", " ">>)]
SongD == [song |-> JStr(<<"d">>),      artist |-> JStr(<<"z">>)]
SongNoArtist == [song |-> JStr(<<"c">>), artist |-> JUndefined]
SongBlank == [song |-> JStr(<<" ">>), artist |-> JStr(<<"w">>)]

\* maxItems of songs in playlistResponseSchema
SchemaMaxItems == 20

\* more songs than the schema allows
TooManySongs == [i \in 1..(SchemaMaxItems + 1) |-> SongA]

NoId == <<>>
\* a continuation reference the client sends itself
ClientRef == <<0, 1>>

SessionKeys == {"s1", "default"}

\* req.body; session_id "" and spotifySessionId "" stand for null; model is
\* a callable model, one that has a price but is not in validModels, or one
\* that is in neither list
RequestChoices ==
    [ message_ok : BOOLEAN,
      session_id : {"", "s1"},
      previous_response_id : {NoId, ClientRef},
      currentPlaylist : { [present |-> FALSE, songs |-> <<>>],
                          [present |-> TRUE,  songs |-> <<SongD>>],
                          [present |-> TRUE,  songs |-> <<SongNoArtist>>] },
      spotifySessionId : {"", "sp1"},
      model : {"gpt-4o", "gpt-5-mini"} ]
    \cup [ message_ok : {TRUE},
           session_id : {""},
           previous_response_id : {NoId},
           currentPlaylist : { [present |-> FALSE, songs |-> <<>>] },
           spotifySessionId : {"sp1"},
           model : {"gpt-4o-mini", "unknown"} ]

NoRequest == [ message_ok |-> FALSE, session_id |-> "",
               previous_response_id |-> NoId,
               currentPlaylist |-> [present |-> FALSE, songs |-> <<>>],
               spotifySessionId |-> "", model |-> "gpt-4o" ]

\* confidences in tenths: 0.4, 0.5, 0.9
IntentChoices ==
    { [intentType |-> "popular_tracks",              confidence |-> 9],
      [intentType |-> "genre_mood_playlists",        confidence |-> 9],
      [intentType |-> "popular_tracks_from_artists", confidence |-> 9],
      [intentType |-> "popular_tracks_from_artists", confidence |-> 5],
      [intentType |-> "popular_tracks",              confidence |-> 4],
      [intentType |-> "popular_genres",              confidence |-> 9] }

\* What detectPopularIntent resolves to: parsed model output of the schema's
\* shape ("ok"), the catch branch ("failed"), or parsed output of another
\* shape: JSON null, an object without intents, intents that is no array.
ClassifierChoices ==
    { [kind |-> "ok", intents |-> s] : s \in SeqsUpTo(IntentChoices, MaxIntents) }
    \cup { [kind |-> k, intents |-> <<>>] :
              k \in {"failed", "null", "no_intents", "not_array"} }

NoUsage == [present |-> FALSE, input_tokens |-> Absent, output_tokens |-> Absent,
            total_tokens |-> Absent, cached_tokens |-> Absent]

\* response.usage of the Responses API
ApiUsageChoices ==
    { NoUsage,
      [present |-> TRUE, input_tokens |-> 100, output_tokens |-> 50,
       total_tokens |-> 150, cached_tokens |-> 0],
      [present |-> TRUE, input_tokens |-> 80, output_tokens |-> 40,
       total_tokens |-> 120, cached_tokens |-> 20] }

\* error.status of a rejected openai.responses.create; 0 = no status
ErrorStatusChoices == {401, 429, 500, 0}

\* What one openai.responses.create resolves to: a rejection, no output
\* text, output text that is no JSON, or JSON whose songs member is absent,
\* not an array, or an array; reply tells whether the JSON has a reply
\* string.
LlmChoices ==
    { [kind |-> "throw", status |-> st, songsKind |-> "absent", songs |-> <<>>,
       usage |-> NoUsage, reply |-> "absent"] : st \in ErrorStatusChoices }
    \cup { [kind |-> k, status |-> 0, songsKind |-> "absent", songs |-> <<>>,
            usage |-> u, reply |-> "absent"] :
              k \in {"empty", "badjson"}, u \in {NoUsage} }
    \cup { [kind |-> "json", status |-> 0, songsKind |-> sk, songs |-> <<>>,
            usage |-> u, reply |-> "string"] :
              sk \in {"absent", "not_array"}, u \in ApiUsageChoices }
    \cup { [kind |-> "json", status |-> 0, songsKind |-> "array", songs |-> s,
            usage |-> u, reply |-> "string"] :
              s \in { <<>>, <<SongA>>, <<SongNoArtist, SongB, SongBlank>> },
              u \in ApiUsageChoices }
    \cup { [kind |-> "json", status |-> 0, songsKind |-> "array",
            songs |-> <<SongA>>, usage |-> NoUsage, reply |-> "absent"],
           [kind |-> "json", status |-> 0, songsKind |-> "array",
            songs |-> TooManySongs, usage |-> NoUsage, reply |-> "string"] }

-----------------------------------------------------------------------------
(* Chat turn controller: helpers of router.post("/chat") *)

\* intentHandlers/index.js: the registry, with each handler's getPhase()
HandlerPhase ==
    [h \in {"popular_tracks", "popular_artists", "popular_tracks_from_artists",
            "genre_mood_playlists"} |->
        IF h = "popular_tracks_from_artists" THEN 2 ELSE 1]

\* the keys of the registry, in the order of registration
RegistrationOrder ==
    <<"popular_tracks", "popular_artists", "popular_tracks_from_artists",
      "genre_mood_playlists">>

\* detectedIntents.filter((i) => i.confidence > 0.5), confidences in tenths
ConfidenceThreshold == 5

PassesThreshold(i) == i.confidence > ConfidenceThreshold

\* the loop that separates the valid intents by phase
IntentsOfPhase(detected, phase) ==
    LET InPhase(i) == /\ PassesThreshold(i)
                      /\ i.intentType \in DOMAIN HandlerPhase
                      /\ HandlerPhase[i.intentType] = phase
    IN  SelectSeq(detected, InPhase)

\* let previousResponseId = previous_response_id; if (!previousResponseId &&
\* session_id) previousResponseId = conversationState.get(session_id)
LookupPreviousResponseIdMut(r, store) == r.previous_response_id
LookupPreviousResponseId(r, store) ==
    IF r.previous_response_id = NoId /\ r.session_id # ""
    THEN store[r.session_id]
    ELSE r.previous_response_id

\* const sessionId = session_id || "default"
StoreKey(r) == IF r.session_id = "" THEN "default" ELSE r.session_id

\* validModels.includes(model) ? model : "gpt-4o"
ModelToUse(model) ==
    IF model \in {"gpt-4o", "gpt-5-mini", "gpt-5"} THEN model ELSE "gpt-4o"

\* the pricing table local to the normal flow
NormalFlowPricing ==
    [m \in {"gpt-4o", "gpt-5", "gpt-5-mini"} |->
        CASE m = "gpt-4o"     -> [input |-> 2500, cached |-> 250, output |-> 10000]
          [] m = "gpt-5"      -> [input |-> 1250, cached |-> 125, output |-> 10000]
          [] m = "gpt-5-mini" -> [input |-> 250,  cached |-> 25,  output |-> 2000]]

EmptyUsage == [prompt_tokens |-> Absent, completion_tokens |-> Absent,
               cached_tokens |-> Absent, total_tokens |-> Absent]

\* phase1Usage / phase2Usage from response.usage
PhaseUsage(u) ==
    IF u.present
    THEN [prompt_tokens     |-> OrZero(u.input_tokens),
          completion_tokens |-> OrZero(u.output_tokens),
          cached_tokens     |-> OrZero(u.cached_tokens),
          total_tokens      |-> OrZero(u.total_tokens)]
    ELSE EmptyUsage

\* [phase1Usage, phase2Usage].filter((u) => Object.keys(u).length > 0)
NonEmptyUsages(us) == LET HasKeys(u) == u # EmptyUsage IN SelectSeq(us, HasKeys)

NoPlaylist == [present |-> FALSE, songs |-> <<>>, response_id |-> NoId]

NoResponse == [status |-> 0, hasPlaylist |-> FALSE, songs |-> <<>>,
               reply |-> "absent",
               response_id |-> NoId, prompt_tokens |-> 0,
               completion_tokens |-> 0, total_tokens |-> 0, cost_usd |-> 0,
               phases |-> 0, model |-> ""]

\* reply: phaseNParsed.reply || "Created playlist" on the phase paths
PhaseReply(out) == "string"

\* reply: parsedResponse.reply in the normal flow
NormalReply(out) == out.reply

\* res.status(status).json({ error: ... })
ErrorResponse(status) == [NoResponse EXCEPT !.status = status]

\* the catch block: the response status for a thrown error, by error.status
CatchStatusMut(errorStatus) ==
    IF errorStatus = 401 THEN 401
    ELSE IF errorStatus = 429 THEN 429
    ELSE 500
CatchStatus(errorStatus) ==
    IF errorStatus = 401 THEN 401
    ELSE IF errorStatus = 429 THEN 429
    ELSE IF errorStatus >= 500 THEN 503
    ELSE 500

\* A handler's context string is a sequence of context blocks: "" is <<>>,
\* and joining with "\n" is concatenation.
ContextBlock(h, artists) == <<[h |-> h, artists |-> artists]>>

NewRun(intent, phase, data) ==
    [intentType |-> intent.intentType, phase |-> phase,
     phase1Data |-> data, done |-> FALSE, context |-> <<>>]

\* the phase1Data argument the Phase-2 handlers are called with:
\* { playlist: phase1Playlist }
Phase2HandlerDataMut(p1Playlist, current) ==
    [present |-> current.present, songs |-> current.songs, response_id |-> NoId]
Phase2HandlerData(p1Playlist, current) == p1Playlist

\* The context handler run r resolves to when its fetch found data.  The
\* Phase-2 handler has nothing to offer without a Phase-1 playlist with
\* artists, and otherwise its block is built from the top tracks of those
\* artists.  (A handler whose source is unavailable, whose fetch fails or
\* finds nothing resolves to "".)
HandlerContext(r) ==
    IF r.phase = 1 THEN ContextBlock(r.intentType, <<>>)
    ELSE IF ~r.phase1Data.present \/ r.phase1Data.songs = <<>>
            \/ extractArtists(r.phase1Data.songs) = <<>>
    THEN <<>>
    ELSE ContextBlock(r.intentType, extractArtists(r.phase1Data.songs))

\* Pending run i gets as far as asking the catalog for data, and comes back
\* without any: the case in which a failed getSpotifyAccessToken, caught by
\* the list operation or by the handler's own try block, ends.  (The Phase-2
\* handler returns before that without a Phase-1 playlist with artists.)
ReachesCatalog(r, i, found) ==
    ~r.done /\ i \notin found /\ HandlerContext(r) # <<>>

\* the runs after the pending ones have resolved, those in found with data
Resolved(runs, found) ==
    [i \in 1..Len(runs) |->
        IF runs[i].done THEN runs[i]
        ELSE [runs[i] EXCEPT !.done = TRUE,
                             !.context = IF i \in found THEN HandlerContext(runs[i])
                                         ELSE <<>>]]

\* results.map((r) => r.context || "").filter((c) => c).join("\n") over the
\* runs from..to
RECURSIVE CombinedContextMut(_, _, _)
CombinedContextMut(runs, from, to) ==
    IF to < from \/ runs[to].context = <<>> THEN <<>>
    ELSE CombinedContextMut(runs, from, to - 1) \o runs[to].context
RECURSIVE CombinedContext(_, _, _)
CombinedContext(runs, from, to) ==
    IF to < from THEN <<>>
    ELSE CombinedContext(runs, from, to - 1) \o runs[to].context

\* the context the Phase-1 prompt is given
Phase1PromptContextMut(ctx) == <<>>
Phase1PromptContext(ctx) == ctx

\* requestParams.previous_response_id of the refinement call
Phase2ContinuationRefMut(p1Playlist, prevId) == prevId
Phase2ContinuationRef(p1Playlist, prevId) == p1Playlist.response_id

\* requestParams of one openai.responses.create, with the bookkeeping of
\* its answer
NewCall(tag, prev, ctx) ==
    [tag |-> tag, previous_response_id |-> prev, context |-> ctx,
     model |-> ModelToUse(req.model), done |-> FALSE, ok |-> FALSE,
     status |-> 0, id |-> NoId, usage |-> NoUsage,
     songsKind |-> "absent", songs |-> <<>>]

\* Building the prompt of a generation over the current playlist and
\* issuing the call: the map over currentPlaylist.songs throws on a song
\* without song or artist, otherwise openai.responses.create is awaited.
BeginGenerationMut(tag, awaitPc, prev, ctx, calls) ==
    [pc |-> awaitPc, response |-> NoResponse,
     calls |-> Append(calls, NewCall(tag, prev, ctx))]
BeginGeneration(tag, awaitPc, prev, ctx, calls) ==
    IF req.currentPlaylist.present /\ HasInvalidSong(req.currentPlaylist.songs)
    THEN [pc |-> "done", response |-> ErrorResponse(CatchStatus(0)), calls |-> calls]
    ELSE [pc |-> awaitPc, response |-> NoResponse,
          calls |-> Append(calls, NewCall(tag, prev, ctx))]

\* the call just answered, as the turn's bookkeeping records it
Answered(calls, out, accepted) ==
    [calls EXCEPT ![Len(calls)] =
        [@ EXCEPT !.done = TRUE, !.ok = accepted, !.status = out.status,
                  !.id = IF out.kind = "throw" THEN NoId ELSE <<turn, Len(calls)>>,
                  !.usage = out.usage,
                  !.songsKind = out.songsKind, !.songs = out.songs]]

\* Phase paths: phaseNParsed.songs is defaulted to [] when missing, and
\* validateAndFilterSongs throws when it is no array.  Reading .songs of an
\* undefined parse result (no output text) and JSON.parse of bad text throw.
PhaseOutputAccepted(out) ==
    out.kind = "json" /\ out.songsKind \in {"absent", "array"}

PhaseOutputSongs(out) ==
    IF out.songsKind = "absent" THEN <<>> ELSE validateAndFilterSongs(out.songs)

\* Normal flow: empty content, unparsable content and a songs member that
\* is missing or no array all throw, so that control reaches neither the
\* store of the response id nor res.json.
NormalStoresResponseIdMut(out) == out.kind = "json"
NormalStoresResponseId(out) == out.kind = "json" /\ out.songsKind = "array"

NormalOutputAccepted(out) == out.kind = "json" /\ out.songsKind = "array"

\* conversationState.set(sessionId, id), guarded by if (id)
SetConversationState(store, r, id) ==
    IF id # NoId THEN [store EXCEPT ![StoreKey(r)] = id] ELSE store

\* the id of the last generation call of the turn whose output was accepted
RECURSIVE LastOkId(_)
LastOkId(calls) ==
    IF calls = <<>> THEN NoId
    ELSE IF calls[Len(calls)].ok THEN calls[Len(calls)].id
    ELSE LastOkId(SubSeq(calls, 1, Len(calls) - 1))

\* if (phase1Playlist && phase2Intents.length === 0): return Phase 1 result
ReturnsPhase1Result(p1Playlist, p2Intents) ==
    p1Playlist.present /\ p2Intents = <<>>

-----------------------------------------------------------------------------
(* Chat turn controller: router.post("/chat"), one action per resumption *)

InitChat ==
    /\ openai \in BOOLEAN
    /\ conversationState = [k \in SessionKeys |-> NoId]
    /\ pc = "idle"
    /\ turn = 0
    /\ req = NoRequest
    /\ detectedIntents = <<>>
    /\ phase1Intents = <<>>
    /\ phase2Intents = <<>>
    /\ phase1Context = <<>>
    /\ phase1Playlist = NoPlaylist
    /\ phase1Usage = EmptyUsage
    /\ phase2Context = <<>>
    /\ previousResponseId = NoId
    /\ handlerRuns = <<>>
    /\ llmCalls = <<>>
    /\ response = NoResponse
    /\ storeBefore = [k \in SessionKeys |-> NoId]
    /\ lastSuccess = [k \in SessionKeys |-> NoId]
    /\ credentialFailed = FALSE

InitCostIdle ==
    /\ costUsages = <<>>
    /\ costModel = "gpt-4o"
    /\ costPc = "done"
    /\ costTotal = 0
    /\ costSingle = 0

\* A request arrives (requests are served one after the other): input
\* validation, the configuration check, the lookup of the continuation
\* reference, and the call of detectPopularIntent.
Receive(r) ==
    /\ pc = "idle"
    /\ turn < MaxTurns
    /\ turn' = turn + 1
    /\ req' = r
    /\ storeBefore' = conversationState
    /\ detectedIntents' = <<>>
    /\ phase1Intents' = <<>>
    /\ phase2Intents' = <<>>
    /\ phase1Context' = <<>>
    /\ phase1Playlist' = NoPlaylist
    /\ phase1Usage' = EmptyUsage
    /\ phase2Context' = <<>>
    /\ handlerRuns' = <<>>
    /\ llmCalls' = <<>>
    /\ IF ~r.message_ok
       THEN /\ response' = ErrorResponse(400)
            /\ pc' = "done"
            /\ previousResponseId' = NoId
       ELSE IF ~openai
       THEN /\ response' = ErrorResponse(500)
            /\ pc' = "done"
            /\ previousResponseId' = NoId
       ELSE /\ response' = NoResponse
            /\ pc' = "await_classify"
            /\ previousResponseId' = LookupPreviousResponseId(r, conversationState)
    /\ credentialFailed' = FALSE
    /\ UNCHANGED <<openai, conversationState, lastSuccess>>

\* detectPopularIntent resolves: the intents are filtered by confidence and
\* separated by phase; then the Phase-1 handlers are called, or, without
\* Phase-1 intents, the first generation call is issued.
ClassifierReturns(c) ==
    /\ pc = "await_classify"
    \* an invalid song in the current playlist throws inside detectPopularIntent
    \* before the classification request, into its catch branch
    /\ (req.currentPlaylist.present /\ HasInvalidSong(req.currentPlaylist.songs))
          => c.kind = "failed"
    /\ IF c.kind \in {"null", "not_array"}
       THEN \* intentResult.intents / detectedIntents.filter throw a TypeError
            /\ pc' = "done"
            /\ response' = ErrorResponse(CatchStatus(0))
            /\ UNCHANGED <<detectedIntents, phase1Intents, phase2Intents,
                           handlerRuns, llmCalls>>
       ELSE LET p1 == IntentsOfPhase(c.intents, 1)
                p2 == IntentsOfPhase(c.intents, 2)
                gen == IF p2 # <<>>
                       THEN BeginGeneration("phase1", "await_phase1_llm",
                                previousResponseId, Phase1PromptContext(<<>>),
                                llmCalls)
                       ELSE BeginGeneration("normal", "await_normal_llm",
                                previousResponseId, <<>>, llmCalls)
            IN  /\ detectedIntents' = c.intents
                /\ phase1Intents' = p1
                /\ phase2Intents' = p2
                /\ IF p1 # <<>>
                   THEN /\ handlerRuns' =
                              [i \in 1..Len(p1) |-> NewRun(p1[i], 1, NoPlaylist)]
                        /\ pc' = "await_phase1_handlers"
                        /\ UNCHANGED <<llmCalls, response>>
                   ELSE /\ pc' = gen.pc
                        /\ response' = gen.response
                        /\ llmCalls' = gen.calls
                        /\ UNCHANGED handlerRuns
    /\ UNCHANGED <<openai, conversationState, turn, req, phase1Context,
                   phase1Playlist, phase1Usage, phase2Context,
                   previousResponseId, storeBefore, lastSuccess, credentialFailed>>

\* Promise.all over the Phase-1 handlers resolves: the contexts are
\* combined and the Phase-1 generation call is issued.
Phase1HandlersReturn(found, tokenThrew) ==
    /\ pc = "await_phase1_handlers"
    /\ found \subseteq 1..Len(handlerRuns)
    /\ tokenThrew => \E i \in 1..Len(handlerRuns) : ReachesCatalog(handlerRuns[i], i, found)
    /\ credentialFailed' = tokenThrew
    /\ LET runs == Resolved(handlerRuns, found)
           ctx == CombinedContext(runs, 1, Len(runs))
           gen == BeginGeneration("phase1", "await_phase1_llm",
                      previousResponseId, Phase1PromptContext(ctx), llmCalls)
       IN  /\ handlerRuns' = runs
           /\ phase1Context' = ctx
           /\ pc' = gen.pc
           /\ response' = gen.response
           /\ llmCalls' = gen.calls
    \* detectedIntents is not read after the partition loop
    /\ detectedIntents' = <<>>
    /\ UNCHANGED <<openai, conversationState, turn, req,
                   phase1Intents, phase2Intents, phase1Playlist, phase1Usage,
                   phase2Context, previousResponseId, storeBefore, lastSuccess>>

\* The successful response of a turn, with the store write that precedes it.
Succeed(resp, id) ==
    /\ pc' = "done"
    /\ response' = resp
    /\ conversationState' = SetConversationState(conversationState, req, id)

Fail(status) ==
    /\ pc' = "done"
    /\ response' = ErrorResponse(status)
    /\ UNCHANGED conversationState

\* The Phase-1 generation call resolves.
Phase1LlmReturns(out) ==
    /\ pc = "await_phase1_llm"
    /\ llmCalls' = Answered(llmCalls, out, PhaseOutputAccepted(out))
    /\ IF out.kind = "throw"
       THEN /\ Fail(CatchStatus(out.status))
            /\ UNCHANGED <<phase1Playlist, phase1Usage, handlerRuns>>
       ELSE IF ~PhaseOutputAccepted(out)
       THEN /\ Fail(CatchStatus(0))
            /\ UNCHANGED <<phase1Playlist, phase1Usage, handlerRuns>>
       ELSE LET id == <<turn, Len(llmCalls)>>
                playlist == [present |-> TRUE, songs |-> PhaseOutputSongs(out),
                             response_id |-> id]
                usage == PhaseUsage(out.usage)
            IN  /\ phase1Playlist' = playlist
                /\ phase1Usage' = usage
                /\ IF phase2Intents # <<>>
                   THEN IF req.spotifySessionId = ""
                        THEN /\ Fail(401)
                             /\ UNCHANGED handlerRuns
                        ELSE /\ handlerRuns' = handlerRuns \o
                                   [i \in 1..Len(phase2Intents) |->
                                       NewRun(phase2Intents[i], 2,
                                              Phase2HandlerData(playlist,
                                                  req.currentPlaylist))]
                             /\ pc' = "await_phase2_handlers"
                             /\ UNCHANGED <<response, conversationState>>
                   ELSE /\ Succeed([status |-> 200, hasPlaylist |-> TRUE, reply |-> PhaseReply(out),
                                    songs |-> playlist.songs,
                                    response_id |-> id,
                                    prompt_tokens |-> OrZero(usage.prompt_tokens),
                                    completion_tokens |-> OrZero(usage.completion_tokens),
                                    total_tokens |-> OrZero(usage.total_tokens),
                                    cost_usd |-> calculateCost(usage, req.model),
                                    phases |-> 1, model |-> req.model], id)
                        /\ UNCHANGED handlerRuns
    \* detectedIntents is not read after the partition loop
    /\ detectedIntents' = <<>>
    /\ UNCHANGED <<openai, turn, req, phase1Intents,
                   phase2Intents, phase1Context, phase2Context,
                   previousResponseId, storeBefore, lastSuccess, credentialFailed>>

\* Promise.all over the Phase-2 handlers resolves: with a non-empty combined
\* context the refinement call is issued; with an empty one control leaves
\* the Phase-2 block, the "return Phase 1 result" test fails because there
\* are Phase-2 intents, and the normal flow issues its generation call.
Phase2HandlersReturn(found, tokenThrew) ==
    /\ pc = "await_phase2_handlers"
    /\ found \subseteq { i \in 1..Len(handlerRuns) :
                            ~handlerRuns[i].done /\ HandlerContext(handlerRuns[i]) # <<>> }
    /\ tokenThrew => \E i \in 1..Len(handlerRuns) : ReachesCatalog(handlerRuns[i], i, found)
    /\ credentialFailed' = (credentialFailed \/ tokenThrew)
    /\ LET runs == Resolved(handlerRuns, found)
           ctx == CombinedContext(runs, Len(phase1Intents) + 1, Len(runs))
           gen == BeginGeneration("normal", "await_normal_llm",
                      previousResponseId, <<>>, llmCalls)
       IN  /\ handlerRuns' = runs
           /\ phase2Context' = ctx
           /\ IF ctx # <<>>
              THEN /\ llmCalls' = Append(llmCalls,
                          NewCall("phase2",
                              Phase2ContinuationRef(phase1Playlist, previousResponseId),
                              ctx))
                   /\ pc' = "await_phase2_llm"
                   /\ UNCHANGED <<response, conversationState>>
              ELSE IF ReturnsPhase1Result(phase1Playlist, phase2Intents)
              THEN /\ Succeed([status |-> 200, hasPlaylist |-> TRUE, reply |-> "string",
                               songs |-> phase1Playlist.songs,
                               response_id |-> phase1Playlist.response_id,
                               prompt_tokens |-> OrZero(phase1Usage.prompt_tokens),
                               completion_tokens |-> OrZero(phase1Usage.completion_tokens),
                               total_tokens |-> OrZero(phase1Usage.total_tokens),
                               cost_usd |-> calculateCost(phase1Usage, req.model),
                               phases |-> 1, model |-> req.model],
                              phase1Playlist.response_id)
                   /\ UNCHANGED llmCalls
              ELSE /\ pc' = gen.pc
                   /\ response' = gen.response
                   /\ llmCalls' = gen.calls
                   /\ UNCHANGED conversationState
    \* detectedIntents is not read after the partition loop
    /\ detectedIntents' = <<>>
    /\ UNCHANGED <<openai, turn, req, phase1Intents,
                   phase2Intents, phase1Context, phase1Playlist, phase1Usage,
                   previousResponseId, storeBefore, lastSuccess>>

\* The refinement call resolves.
Phase2LlmReturns(out) ==
    /\ pc = "await_phase2_llm"
    /\ llmCalls' = Answered(llmCalls, out, PhaseOutputAccepted(out))
    /\ IF out.kind = "throw"
       THEN Fail(CatchStatus(out.status))
       ELSE IF ~PhaseOutputAccepted(out)
       THEN Fail(CatchStatus(0))
       ELSE LET id == <<turn, Len(llmCalls)>>
                phase2Usage == PhaseUsage(out.usage)
            IN  Succeed([status |-> 200, hasPlaylist |-> TRUE, reply |-> PhaseReply(out),
                         songs |-> PhaseOutputSongs(out),
                         response_id |-> id,
                         prompt_tokens |-> OrZero(phase1Usage.prompt_tokens)
                                           + OrZero(phase2Usage.prompt_tokens),
                         completion_tokens |-> OrZero(phase1Usage.completion_tokens)
                                               + OrZero(phase2Usage.completion_tokens),
                         total_tokens |-> OrZero(phase1Usage.total_tokens)
                                          + OrZero(phase2Usage.total_tokens),
                         cost_usd |-> calculateTotalCost(
                                          NonEmptyUsages(<<phase1Usage, phase2Usage>>),
                                          req.model),
                         phases |-> 2, model |-> req.model], id)
    \* detectedIntents is not read after the partition loop
    /\ detectedIntents' = <<>>
    /\ UNCHANGED <<openai, turn, req, phase1Intents,
                   phase2Intents, phase1Context, phase1Playlist, phase1Usage,
                   phase2Context, previousResponseId, handlerRuns, storeBefore,
                   lastSuccess, credentialFailed>>

\* The generation call of the normal flow resolves.
NormalLlmReturns(out) ==
    /\ pc = "await_normal_llm"
    /\ llmCalls' = Answered(llmCalls, out, NormalOutputAccepted(out))
    /\ pc' = "done"
    /\ conversationState' =
          IF NormalStoresResponseId(out)
          THEN SetConversationState(conversationState, req, <<turn, Len(llmCalls)>>)
          ELSE conversationState
    /\ response' =
       IF out.kind = "throw"
       THEN ErrorResponse(CatchStatus(out.status))
       ELSE IF ~NormalOutputAccepted(out)
       THEN ErrorResponse(CatchStatus(0))
       ELSE LET id == <<turn, Len(llmCalls)>>
                modelToUse == ModelToUse(req.model)
                modelPricing == IF modelToUse \in DOMAIN NormalFlowPricing
                                THEN NormalFlowPricing[modelToUse]
                                ELSE NormalFlowPricing["gpt-4o"]
                inputTokens == OrZero(out.usage.input_tokens)
                outputTokens == OrZero(out.usage.output_tokens)
                totalTokens == OrZero(out.usage.total_tokens)
                cachedTokens == OrZero(out.usage.cached_tokens)
                uncachedInputTokens == inputTokens - cachedTokens
            IN  [status |-> 200, hasPlaylist |-> TRUE, reply |-> NormalReply(out),
                         songs |-> validateAndFilterSongs(out.songs),
                         response_id |-> id,
                         prompt_tokens |-> inputTokens,
                         completion_tokens |-> outputTokens,
                         total_tokens |-> totalTokens,
                         cost_usd |-> uncachedInputTokens * modelPricing.input
                                      + cachedTokens * modelPricing.cached
                                      + outputTokens * modelPricing.output,
                         phases |-> 0, model |-> modelToUse]
    \* detectedIntents is not read after the partition loop
    /\ detectedIntents' = <<>>
    /\ UNCHANGED <<openai, turn, req, phase1Intents,
                   phase2Intents, phase1Context, phase1Playlist, phase1Usage,
                   phase2Context, previousResponseId, handlerRuns, storeBefore,
                   lastSuccess, credentialFailed>>

\* The route handler has responded and returned; its locals are gone.
EndTurn ==
    /\ pc = "done"
    /\ pc' = "idle"
    /\ req' = NoRequest
    /\ detectedIntents' = <<>>
    /\ phase1Intents' = <<>>
    /\ phase2Intents' = <<>>
    /\ phase1Context' = <<>>
    /\ phase1Playlist' = NoPlaylist
    /\ phase1Usage' = EmptyUsage
    /\ phase2Context' = <<>>
    /\ previousResponseId' = NoId
    /\ handlerRuns' = <<>>
    /\ llmCalls' = <<>>
    /\ response' = NoResponse
    /\ storeBefore' = conversationState
    /\ lastSuccess' = IF response.status = 200
                      THEN [lastSuccess EXCEPT ![StoreKey(req)] = LastOkId(llmCalls)]
                      ELSE lastSuccess
    /\ credentialFailed' = FALSE
    /\ UNCHANGED <<openai, conversationState, turn>>

Next ==
    \/ \E r \in RequestChoices : Receive(r) /\ UNCHANGED <<tokenVars, costVars, libraryVars>>
    \/ \E c \in ClassifierChoices : ClassifierReturns(c) /\ UNCHANGED <<tokenVars, costVars, libraryVars>>
    \/ \E ctxs \in SUBSET (1..MaxIntents), tokenThrew \in BOOLEAN :
          Phase1HandlersReturn(ctxs, tokenThrew) /\ UNCHANGED <<tokenVars, costVars, libraryVars>>
    \/ \E out \in LlmChoices : Phase1LlmReturns(out) /\ UNCHANGED <<tokenVars, costVars, libraryVars>>
    \/ \E ctxs \in SUBSET (1..MaxIntents), tokenThrew \in BOOLEAN :
          Phase2HandlersReturn(ctxs, tokenThrew) /\ UNCHANGED <<tokenVars, costVars, libraryVars>>
    \/ \E out \in LlmChoices : Phase2LlmReturns(out) /\ UNCHANGED <<tokenVars, costVars, libraryVars>>
    \/ \E out \in LlmChoices : NormalLlmReturns(out) /\ UNCHANGED <<tokenVars, costVars, libraryVars>>
    \/ EndTurn /\ UNCHANGED <<tokenVars, costVars, libraryVars>>

-----------------------------------------------------------------------------
(* The orchestrator of routes/openai.js that may skip Phase 1: the         *)
(* popular_tracks_from_artists branch of router.post("/chat")              *)

\* currentPlaylist.songs as the client sends them: strings "Song - Artist",
\* kept as the list of their parts between the separators " - "
SongTextChoices ==
    { <<"a", "x">>, <<"b", "x">>, <<"c", "y">>, <<"d">> }

\* currentPlaylist: null, without songs, with songs of two artists, with two
\* songs of one artist, with a song that names no artist
CurrentPlaylistChoices ==
    { [present |-> FALSE, songs |-> <<>>],
      [present |-> TRUE,  songs |-> <<>>],
      [present |-> TRUE,  songs |-> << <<"a", "x">>, <<"c", "y">> >>],
      [present |-> TRUE,  songs |-> << <<"a", "x">>, <<"b", "x">> >>],
      [present |-> TRUE,  songs |-> << <<"d">> >>] }

TwoPhaseRequestChoices ==
    [ message_ok : BOOLEAN,
      session_id : {"", "s1"},
      previous_response_id : {NoId, ClientRef},
      currentPlaylist : CurrentPlaylistChoices,
      model : {"gpt-4o", "gpt-5-mini"} ]

NoTwoPhaseRequest ==
    [ message_ok |-> FALSE, session_id |-> "", previous_response_id |-> NoId,
      currentPlaylist |-> [present |-> FALSE, songs |-> <<>>],
      model |-> "gpt-4o" ]

\* what detectPopularIntent resolves to (its catch answers "none")
TwoPhaseIntentChoices ==
    { [intentType |-> "none",                        confidence |-> 0],
      [intentType |-> "popular_tracks",              confidence |-> 9],
      [intentType |-> "popular_tracks_from_artists", confidence |-> 9],
      [intentType |-> "popular_tracks_from_artists", confidence |-> 5] }

\* what one openai.responses.create of this route resolves to: a rejection,
\* content that is empty or no JSON of the schema, or a playlist
TwoPhaseLlmChoices ==
    { [kind |-> "throw", status |-> 429, songs |-> <<>>, usage |-> NoUsage],
      [kind |-> "bad",   status |-> 0,   songs |-> <<>>, usage |-> NoUsage] }
    \cup { [kind |-> "ok", status |-> 0, songs |-> s, usage |-> u] :
              s \in { <<>>, << <<"a", "x">> >> },
              u \in ApiUsageChoices \ {NoUsage} }
    \cup { [kind |-> "ok", status |-> 0, songs |-> << <<"c", "y">> >>,
            usage |-> NoUsage] }

\* parts.slice(1).join(" - ").trim() of one song string; <<>> when the
\* string has no separator
ArtistOfSongText(song) == SubSeq(song, 2, Len(song))

\* extractUniqueArtists(songs): the artists in order of first appearance
RECURSIVE extractUniqueArtists(_)
extractUniqueArtists(songs) ==
    IF songs = <<>> THEN <<>>
    ELSE LET rest == extractUniqueArtists(SubSeq(songs, 1, Len(songs) - 1))
             artist == ArtistOfSongText(songs[Len(songs)])
         IN  IF artist = <<>> \/ \E i \in 1..Len(rest) : rest[i] = artist
             THEN rest
             ELSE Append(rest, artist)

\* currentPlaylist && currentPlaylist.songs && currentPlaylist.songs.length > 0
HasSongs(currentPlaylist) ==
    currentPlaylist.present /\ currentPlaylist.songs # <<>>

\* intent.intentType !== "none" && intent.confidence > 0.5, for the branch
\* of popular_tracks_from_artists
IsTwoPhaseIntent(intent) ==
    intent.intentType = "popular_tracks_from_artists"
    /\ intent.confidence > ConfidenceThreshold

\* pricing[model] || pricing["gpt-4o"]
TwoPhasePricing(model) ==
    IF model \in DOMAIN NormalFlowPricing
    THEN NormalFlowPricing[model] ELSE NormalFlowPricing["gpt-4o"]

\* the usage object the helpers and the normal flow build from
\* completion.usage
HelperUsage(u) ==
    [prompt_tokens     |-> OrZero(u.input_tokens),
     completion_tokens |-> OrZero(u.output_tokens),
     cached_tokens     |-> OrZero(u.cached_tokens),
     total_tokens      |-> OrZero(u.total_tokens)]

ZeroUsage == [prompt_tokens |-> 0, completion_tokens |-> 0,
              cached_tokens |-> 0, total_tokens |-> 0]

\* initialPlaylist; without one present is false
NoInitialPlaylist ==
    [present |-> FALSE, songs |-> <<>>, response_id |-> NoId,
     usage |-> ZeroUsage]

\* the mock initialPlaylist built from the current playlist
InitialPlaylistFromCurrent(currentPlaylist, prevId) ==
    [present |-> TRUE, songs |-> currentPlaylist.songs, response_id |-> prevId,
     usage |-> ZeroUsage]

\* the locals of the route handler; fetched tells whether
\* getTopTracksForArtists was called, seeded with which artists
NoTwoPhaseLocals ==
    [previousResponseId |-> NoId, intent |-> [intentType |-> "none", confidence |-> 0],
     initialPlaylist |-> NoInitialPlaylist, artists |-> <<>>,
     fetched |-> FALSE, seeded |-> <<>>]

NoTwoPhaseResponse ==
    [status |-> 0, response_id |-> NoId, prompt_tokens |-> 0,
     completion_tokens |-> 0, total_tokens |-> 0, cost_usd |-> 0,
     phases |-> 0, skipped_phase1 |-> FALSE]

TwoPhaseError(status) == [NoTwoPhaseResponse EXCEPT !.status = status]

\* requestParams of a generation call of this route and the bookkeeping of
\* its answer
TwoPhaseCall(tag, prev) ==
    [tag |-> tag, previous_response_id |-> prev, done |-> FALSE, ok |-> FALSE,
     id |-> NoId, usage |-> NoUsage]

TwoPhaseAnswered(calls, out) ==
    [calls EXCEPT ![Len(calls)] =
        [@ EXCEPT !.done = TRUE, !.ok = (out.kind = "ok"),
                  !.id = IF out.kind = "throw" THEN NoId
                         ELSE <<tpTurn, Len(calls)>>,
                  !.usage = out.usage]]

\* uncached input + cached input + output at the rates of the model
TwoPhaseCost(usage, model) ==
    LET modelPricing == TwoPhasePricing(model)
    IN  (usage.prompt_tokens - usage.cached_tokens) * modelPricing.input
        + usage.cached_tokens * modelPricing.cached
        + usage.completion_tokens * modelPricing.output

InitTwoPhaseIdle ==
    /\ tpPc = "idle"
    /\ tpTurn = 0
    /\ tpReq = NoTwoPhaseRequest
    /\ tpStore = [k \in SessionKeys |-> NoId]
    /\ tpLast = [k \in SessionKeys |-> NoId]
    /\ tpLocals = NoTwoPhaseLocals
    /\ tpCalls = <<>>
    /\ tpResponse = NoTwoPhaseResponse

\* A request arrives: the input checks, the lookup of the continuation
\* reference and the call of detectPopularIntent.
TwoPhaseReceive(r) ==
    /\ tpPc = "idle"
    /\ tpTurn < MaxTurns
    /\ tpTurn' = tpTurn + 1
    /\ tpReq' = r
    /\ tpCalls' = <<>>
    /\ IF ~r.message_ok
       THEN /\ tpPc' = "done"
            /\ tpResponse' = TwoPhaseError(400)
            /\ tpLocals' = NoTwoPhaseLocals
       ELSE IF ~openai
       THEN /\ tpPc' = "done"
            /\ tpResponse' = TwoPhaseError(500)
            /\ tpLocals' = NoTwoPhaseLocals
       ELSE /\ tpPc' = "await_classify"
            /\ tpResponse' = NoTwoPhaseResponse
            /\ tpLocals' = [NoTwoPhaseLocals EXCEPT !.previousResponseId =
                               IF r.previous_response_id = NoId /\ r.session_id # ""
                               THEN tpStore[r.session_id]
                               ELSE r.previous_response_id]
    /\ UNCHANGED <<tpStore, tpLast>>

\* the generation call of the normal flow is issued
TwoPhaseBeginNormal ==
    /\ tpPc' = "await_normal"
    /\ tpCalls' = Append(tpCalls, TwoPhaseCall("normal", tpLocals.previousResponseId))

\* getTopTracksForArtists(artists, 5) is called
TwoPhaseBeginFetch(locals) ==
    /\ tpPc' = "await_top_tracks"
    /\ tpLocals' = [locals EXCEPT !.fetched = TRUE, !.seeded = locals.artists]

\* detectPopularIntent resolves.  In the two-phase branch a current
\* playlist with songs takes the place of Phase 1; otherwise
\* generateInitialPlaylist is called.  Without artists, and for the other
\* intents, control goes on to the normal flow.
TwoPhaseClassifierReturns(intent) ==
    /\ tpPc = "await_classify"
    /\ LET locals == [tpLocals EXCEPT !.intent = intent]
       IN  IF intent.intentType = "popular_tracks" /\ intent.confidence > ConfidenceThreshold
           THEN /\ tpPc' = "await_popular"
                /\ tpLocals' = locals
                /\ UNCHANGED tpCalls
           ELSE IF ~IsTwoPhaseIntent(intent)
           THEN /\ TwoPhaseBeginNormal
                /\ tpLocals' = locals
           ELSE IF HasSongs(tpReq.currentPlaylist)
           THEN LET skipped ==
                       [locals EXCEPT
                           !.artists = extractUniqueArtists(tpReq.currentPlaylist.songs),
                           !.initialPlaylist =
                               InitialPlaylistFromCurrent(tpReq.currentPlaylist,
                                   tpLocals.previousResponseId)]
                IN  IF skipped.artists # <<>>
                    THEN /\ TwoPhaseBeginFetch(skipped)
                         /\ UNCHANGED tpCalls
                    ELSE /\ TwoPhaseBeginNormal
                         /\ tpLocals' = skipped
           ELSE /\ tpPc' = "await_phase1"
                /\ tpCalls' = Append(tpCalls,
                       TwoPhaseCall("phase1", tpLocals.previousResponseId))
                /\ tpLocals' = locals
    /\ UNCHANGED <<tpTurn, tpReq, tpStore, tpLast, tpResponse>>

\* getPopularTracks(50) of the popular_tracks branch settles (it does not
\* throw); the normal flow goes on with or without its context
TwoPhasePopularSettles ==
    /\ tpPc = "await_popular"
    /\ TwoPhaseBeginNormal
    /\ UNCHANGED <<tpTurn, tpReq, tpStore, tpLast, tpLocals, tpResponse>>

\* the catch block of the route
TwoPhaseFail(out) ==
    /\ tpPc' = "done"
    /\ tpResponse' = TwoPhaseError(CatchStatus(out.status))
    /\ UNCHANGED tpStore

\* generateInitialPlaylist resolves
TwoPhaseInitialReturns(out) ==
    /\ tpPc = "await_phase1"
    /\ IF out.kind # "ok"
       THEN /\ TwoPhaseFail(out)
            /\ tpCalls' = TwoPhaseAnswered(tpCalls, out)
            /\ UNCHANGED tpLocals
       ELSE LET locals ==
                   [tpLocals EXCEPT
                       !.initialPlaylist =
                           [present |-> TRUE, songs |-> out.songs,
                            response_id |-> <<tpTurn, Len(tpCalls)>>,
                            usage |-> HelperUsage(out.usage)],
                       !.artists = extractUniqueArtists(out.songs)]
            IN  /\ UNCHANGED <<tpResponse, tpStore>>
                /\ IF locals.artists # <<>>
                   THEN /\ TwoPhaseBeginFetch(locals)
                        /\ tpCalls' = TwoPhaseAnswered(tpCalls, out)
                   ELSE /\ tpPc' = "await_normal"
                        /\ tpLocals' = locals
                        /\ tpCalls' = Append(TwoPhaseAnswered(tpCalls, out),
                               TwoPhaseCall("normal", tpLocals.previousResponseId))
    /\ UNCHANGED <<tpTurn, tpReq, tpLast>>

\* getTopTracksForArtists resolves (it does not throw): with tracks the
\* refinement call is issued from initialPlaylist.response_id; without
\* tracks a turn that skipped Phase 1 goes on to the normal flow and a turn
\* that made the Phase-1 call answers with its playlist
TwoPhaseTopTracksSettle(found) ==
    /\ tpPc = "await_top_tracks"
    /\ IF found
       THEN /\ tpPc' = "await_refine"
            /\ tpCalls' = Append(tpCalls,
                   TwoPhaseCall("phase2", tpLocals.initialPlaylist.response_id))
            /\ UNCHANGED <<tpResponse, tpStore>>
       ELSE IF HasSongs(tpReq.currentPlaylist)
       THEN /\ TwoPhaseBeginNormal
            /\ UNCHANGED <<tpResponse, tpStore>>
       ELSE LET initial == tpLocals.initialPlaylist
            IN  /\ tpPc' = "done"
                /\ tpStore' = SetConversationState(tpStore, tpReq, initial.response_id)
                /\ tpResponse' =
                      [status |-> 200, response_id |-> initial.response_id,
                       prompt_tokens |-> initial.usage.prompt_tokens,
                       completion_tokens |-> initial.usage.completion_tokens,
                       total_tokens |-> initial.usage.total_tokens,
                       cost_usd |-> TwoPhaseCost(initial.usage, tpReq.model),
                       phases |-> 1, skipped_phase1 |-> FALSE]
                /\ UNCHANGED tpCalls
    /\ UNCHANGED <<tpTurn, tpReq, tpLast, tpLocals>>

\* refinePlaylistWithPopularTracks resolves
TwoPhaseRefineReturns(out) ==
    /\ tpPc = "await_refine"
    /\ tpCalls' = TwoPhaseAnswered(tpCalls, out)
    /\ IF out.kind # "ok"
       THEN TwoPhaseFail(out)
       ELSE LET id == <<tpTurn, Len(tpCalls)>>
                skippedPhase1 == HasSongs(tpReq.currentPlaylist)
                p1Usage == IF skippedPhase1 THEN ZeroUsage
                               ELSE tpLocals.initialPlaylist.usage
                p2Usage == HelperUsage(out.usage)
                total == [f \in DOMAIN ZeroUsage |-> p1Usage[f] + p2Usage[f]]
            IN  /\ tpPc' = "done"
                /\ tpStore' = SetConversationState(tpStore, tpReq, id)
                /\ tpResponse' =
                      [status |-> 200, response_id |-> id,
                       prompt_tokens |-> total.prompt_tokens,
                       completion_tokens |-> total.completion_tokens,
                       total_tokens |-> total.total_tokens,
                       cost_usd |-> TwoPhaseCost(total, tpReq.model),
                       phases |-> IF skippedPhase1 THEN 1 ELSE 2,
                       skipped_phase1 |-> skippedPhase1]
    /\ UNCHANGED <<tpTurn, tpReq, tpLast, tpLocals>>

\* the generation call of the normal flow resolves
TwoPhaseNormalReturns(out) ==
    /\ tpPc = "await_normal"
    /\ tpCalls' = TwoPhaseAnswered(tpCalls, out)
    /\ IF out.kind # "ok"
       THEN TwoPhaseFail(out)
       ELSE LET id == <<tpTurn, Len(tpCalls)>>
                usage == HelperUsage(out.usage)
            IN  /\ tpPc' = "done"
                /\ tpStore' = SetConversationState(tpStore, tpReq, id)
                /\ tpResponse' =
                      [status |-> 200, response_id |-> id,
                       prompt_tokens |-> usage.prompt_tokens,
                       completion_tokens |-> usage.completion_tokens,
                       total_tokens |-> usage.total_tokens,
                       cost_usd |-> TwoPhaseCost(usage, ModelToUse(tpReq.model)),
                       phases |-> 0, skipped_phase1 |-> FALSE]
    /\ UNCHANGED <<tpTurn, tpReq, tpLast, tpLocals>>

\* the route handler has responded and returned; tpLast keeps the response
\* id a successful turn produced for its session key
TwoPhaseEndTurn ==
    /\ tpPc = "done"
    /\ tpPc' = "idle"
    /\ tpLast' = IF tpResponse.status = 200
                 THEN [tpLast EXCEPT ![StoreKey(tpReq)] = tpResponse.response_id]
                 ELSE tpLast
    /\ tpReq' = NoTwoPhaseRequest
    /\ tpLocals' = NoTwoPhaseLocals
    /\ tpCalls' = <<>>
    /\ tpResponse' = NoTwoPhaseResponse
    /\ UNCHANGED <<tpTurn, tpStore>>

NextTwoPhase ==
    \/ \E r \in TwoPhaseRequestChoices :
          TwoPhaseReceive(r) /\ UNCHANGED <<coreVars, catalogVars, playlistVars, uploadVars>>
    \/ \E intent \in TwoPhaseIntentChoices :
          TwoPhaseClassifierReturns(intent) /\ UNCHANGED <<coreVars, catalogVars, playlistVars, uploadVars>>
    \/ TwoPhasePopularSettles /\ UNCHANGED <<coreVars, catalogVars, playlistVars, uploadVars>>
    \/ \E out \in TwoPhaseLlmChoices :
          TwoPhaseInitialReturns(out) /\ UNCHANGED <<coreVars, catalogVars, playlistVars, uploadVars>>
    \/ \E found \in BOOLEAN :
          TwoPhaseTopTracksSettle(found) /\ UNCHANGED <<coreVars, catalogVars, playlistVars, uploadVars>>
    \/ \E out \in TwoPhaseLlmChoices :
          TwoPhaseRefineReturns(out) /\ UNCHANGED <<coreVars, catalogVars, playlistVars, uploadVars>>
    \/ \E out \in TwoPhaseLlmChoices :
          TwoPhaseNormalReturns(out) /\ UNCHANGED <<coreVars, catalogVars, playlistVars, uploadVars>>
    \/ TwoPhaseEndTurn /\ UNCHANGED <<coreVars, catalogVars, playlistVars, uploadVars>>

InitLibraryIdle ==
    InitCatalogIdle /\ InitCacheIdle /\ InitSearchIdle /\ InitUploadIdle
    /\ InitTwoPhaseIdle

Init == InitToken /\ InitCostIdle /\ InitChat /\ InitLibraryIdle

Spec == Init /\ [][Next]_vars

-----------------------------------------------------------------------------
(* Specifications *)

NextToken ==
    \/ \E c \in Callers : GetSpotifyAccessToken(c) /\ UNCHANGED <<costVars, chatVars, libraryVars>>
    \/ \E r \in 1..MaxRequests : TokenRequestSucceeds(r) /\ UNCHANGED <<costVars, chatVars, libraryVars>>
    \/ \E r \in 1..MaxRequests : TokenRequestFails(r) /\ UNCHANGED <<costVars, chatVars, libraryVars>>
    \/ \E c \in Callers : ResumeCaller(c) /\ UNCHANGED <<costVars, chatVars, libraryVars>>
    \/ \E c \in Callers : CallerReturns(c) /\ UNCHANGED <<costVars, chatVars, libraryVars>>
    \/ Tick /\ UNCHANGED <<costVars, chatVars, libraryVars>>

TokenInit == InitToken /\ InitCostIdle /\ InitChat /\ InitLibraryIdle

SpecToken == TokenInit /\ [][NextToken]_vars

NextCost == EvaluateCost /\ UNCHANGED <<tokenVars, chatVars, libraryVars>>

CostInit == InitToken /\ InitCost /\ InitChat /\ InitLibraryIdle

SpecCost == CostInit /\ [][NextCost]_vars

CatalogInit == InitToken /\ InitCostIdle /\ InitChat /\ InitLibraryIdle

SpecCatalog == CatalogInit /\ [][NextCatalog]_vars

CacheInit ==
    InitToken /\ InitCostIdle /\ InitChat /\ InitCatalogIdle /\ InitCache
    /\ InitSearchIdle /\ InitUploadIdle /\ InitTwoPhaseIdle

SpecCache == CacheInit /\ [][NextCache]_vars

SearchInit == InitToken /\ InitCostIdle /\ InitChat /\ InitLibraryIdle

SpecSearch == SearchInit /\ [][NextSearch]_vars

TwoPhaseInit == InitToken /\ InitCostIdle /\ InitChat /\ InitLibraryIdle

SpecTwoPhase == TwoPhaseInit /\ [][NextTwoPhase]_vars

UploadInit == InitToken /\ InitCostIdle /\ InitChat /\ InitLibraryIdle

SpecUpload == UploadInit /\ [][NextUpload]_vars

-----------------------------------------------------------------------------
(* Claims about the token cache *)

Pending == { r \in 1..Len(requests) : requests[r].state = "pending" }

\* C1: credential single-flight.  At most one upstream token request is
\* outstanding at any time; tokenPromise names it exactly while it is
\* outstanding; a caller that arrived while a request was in flight joined
\* that request instead of issuing one (so a group of concurrent callers
\* shares the one request its first member issued); and every caller that
\* waited on a request received that request's outcome.
C1_SingleFlight ==
    /\ Cardinality(Pending) <= 1
    /\ \A r \in 1..Len(requests) :
          (requests[r].state = "pending") <=> (tokenPromise = r)
    /\ \A c \in Callers :
          /\ callers[c].pc \in {"waiting", "done"} /\ callers[c].sawInFlight # 0
                => /\ callers[c].req = callers[c].sawInFlight
                   /\ ~callers[c].started
          /\ callers[c].pc = "waiting" /\ requests[callers[c].req].state = "pending"
                => callers[c].req = tokenPromise
          /\ callers[c].pc = "done" /\ callers[c].req # 0
                => /\ requests[callers[c].req].state # "pending"
                   /\ callers[c].result = requests[callers[c].req].token
                   /\ (callers[c].error = "none")
                         <=> (requests[callers[c].req].state = "ok")
    /\ Cardinality({ c \in Callers : callers[c].pc \in {"waiting", "done"}
                                     /\ callers[c].started }) <= Len(requests)

\* Two callers share one request that has completed, and both hold its token.
C1_Witness ==
    \E c1, c2 \in Callers :
        /\ c1 # c2
        /\ callers[c1].pc = "done" /\ callers[c2].pc = "done"
        /\ callers[c1].started /\ ~callers[c2].started
        /\ callers[c1].req # 0 /\ callers[c2].req = callers[c1].req
        /\ callers[c2].result = TokenOf(callers[c1].req)
        /\ Len(requests) = 1

-----------------------------------------------------------------------------
(* Claims about pricing *)

RECURSIVE SumField(_, _, _)
SumField(usages, n, f) ==
    IF n = 0 THEN 0 ELSE SumField(usages, n - 1, f) + OrZero(usages[n][f])

\* C7: calculateTotalCost sums the components across the calls and applies
\* the rates of the model's pricing entry (gpt-4o's for a model without one)
\* to the sums; on a single usage it agrees with calculateCost.
C7_TotalCostFormula ==
    costPc = "done" =>
        LET n == Len(costUsages)
            sp == SumField(costUsages, n, "prompt_tokens")
            sc == SumField(costUsages, n, "cached_tokens")
            so == SumField(costUsages, n, "completion_tokens")
            rate == IF costModel \in DOMAIN MODEL_PRICING
                    THEN MODEL_PRICING[costModel]
                    ELSE MODEL_PRICING["gpt-4o"]
        IN  /\ costTotal = (sp - sc) * rate.input + sc * rate.cached
                              + so * rate.output
            /\ n = 1 => costTotal = costSingle

\* The spec's example: usage_A and usage_B priced together for gpt-4o.
C7_Witness ==
    /\ costPc = "done"
    /\ costModel = "gpt-4o"
    /\ costUsages = << [prompt_tokens |-> 100, completion_tokens |-> 50, cached_tokens |-> 0],
                       [prompt_tokens |-> 80,  completion_tokens |-> 40, cached_tokens |-> 20] >>
    /\ costTotal = 160 * 2500 + 20 * 250 + 90 * 10000

-----------------------------------------------------------------------------
(* Claims about the chat turn *)

TurnSucceeded == pc = "done" /\ response.status = 200
TurnFailed    == pc = "done" /\ response.status # 200

Phase2Runs == { i \in 1..Len(handlerRuns) : handlerRuns[i].phase = 2 }
Phase1Runs == { i \in 1..Len(handlerRuns) : handlerRuns[i].phase = 1 }

\* the Phase-2 handlers have all resolved and their combined context is empty
Phase2FoundNothing ==
    /\ phase2Intents # <<>>
    /\ Phase2Runs # {}
    /\ \A i \in Phase2Runs : handlerRuns[i].done
    /\ phase2Context = <<>>

\* the songs the controller derives from the output of generation call k
SongsOfCall(k) ==
    IF llmCalls[k].songsKind = "array"
    THEN validateAndFilterSongs(llmCalls[k].songs)
    ELSE <<>>

RECURSIVE SumCalls(_, _, _)
SumCalls(calls, n, f) ==
    IF n = 0 THEN 0 ELSE SumCalls(calls, n - 1, f) + OrZero(calls[n].usage[f])

\* the usage of every generation call of the turn, as pricing reads it
CallUsages ==
    [k \in 1..Len(llmCalls) |->
        [prompt_tokens     |-> OrZero(llmCalls[k].usage.input_tokens),
         completion_tokens |-> OrZero(llmCalls[k].usage.output_tokens),
         cached_tokens     |-> OrZero(llmCalls[k].usage.cached_tokens)]]

\* C2: when the Phase-2 handlers of a turn find nothing (their combined
\* context is empty), the turn makes no generation call after the Phase-1
\* call and responds with Playlist_A and the cost of usage_A alone.
C2_EmptyPhase2FallsBackToPlaylistA ==
    Phase2FoundNothing =>
        /\ Len(llmCalls) = 1
        /\ pc = "done"
        /\ response.status = 200
        /\ response.songs = phase1Playlist.songs
        /\ response.response_id = phase1Playlist.response_id
        /\ response.cost_usd = calculateCost(phase1Usage, req.model)

\* C3: when the Phase-2 handlers yield a non-empty context, the turn makes
\* exactly two generation calls, the second one carrying the Phase-2 context
\* and the first call's response id as its continuation reference; and when
\* the second call's output is accepted the turn responds with the refined
\* playlist, phases = 2 and the second call's response id.
C3_RefinementContinuesPhase1 ==
    phase2Context # <<>> =>
        /\ Len(llmCalls) = 2
        /\ llmCalls[1].tag = "phase1" /\ llmCalls[1].ok
        /\ llmCalls[2].tag = "phase2"
        /\ llmCalls[2].context = phase2Context
        /\ llmCalls[1].id # NoId
        /\ llmCalls[2].previous_response_id = llmCalls[1].id
        /\ pc \in {"await_phase2_llm", "done"}
        /\ (pc = "done" /\ llmCalls[2].ok) =>
              /\ response.status = 200
              /\ response.hasPlaylist
              /\ response.songs = SongsOfCall(2)
              /\ response.phases = 2
              /\ response.response_id = llmCalls[2].id
              /\ response.response_id # llmCalls[1].id

\* A two-phase turn of a client that sent its own continuation reference
\* has answered with a refined playlist that differs from Playlist_A.
C3_Witness ==
    /\ TurnSucceeded
    /\ response.phases = 2
    /\ Len(llmCalls) = 2
    /\ req.previous_response_id = ClientRef
    /\ llmCalls[2].previous_response_id = <<turn, 1>>
    /\ response.songs # phase1Playlist.songs
    /\ response.songs # <<>>

\* C4: a Phase-2 handler is only ever started once every Phase-1 handler of
\* the turn has resolved and the Phase-1 generation has returned Playlist_A,
\* and it is handed Playlist_A (not the request's current playlist): the
\* artists of its context are those of Playlist_A.
C4_Phase1BeforePhase2 ==
    \A i \in Phase2Runs :
        /\ \A j \in Phase1Runs : j < i /\ handlerRuns[j].done
        /\ Len(llmCalls) >= 1
        /\ llmCalls[1].tag = "phase1"
        /\ llmCalls[1].done /\ llmCalls[1].ok
        /\ phase1Playlist.present
        /\ phase1Playlist.response_id = llmCalls[1].id
        /\ phase1Playlist.songs = SongsOfCall(1)
        /\ handlerRuns[i].phase1Data = phase1Playlist
        /\ handlerRuns[i].context # <<>> =>
              handlerRuns[i].context =
                  ContextBlock(handlerRuns[i].intentType,
                               extractArtists(SongsOfCall(1)))

\* A Phase-2 handler has built its context from Playlist_A's artist while
\* the request carried a current playlist by another artist, after a Phase-1
\* handler of the same turn resolved.
C4_Witness ==
    \E i \in Phase2Runs :
        /\ handlerRuns[i].done
        /\ handlerRuns[i].context =
              ContextBlock("popular_tracks_from_artists", << <<"x">> >>)
        /\ req.currentPlaylist.songs = <<SongD>>
        /\ Phase1Runs # {}

\* C5: a turn without Phase-2 intents makes at most one generation call, and
\* exactly one when it answers with a playlist.  With Phase-1 intents the
\* prompt of that call carries the combined context of the Phase-1 handlers
\* and the response reports phases = 1; with no dispatchable intent (none
\* detected, all below the threshold, or of an unregistered type) the prompt
\* carries no handler context.
C5_SinglePhaseSingleCall ==
    /\ (pc \notin {"idle", "await_classify"} /\ phase2Intents = <<>>) =>
          /\ Len(llmCalls) <= 1
          /\ TurnSucceeded => Len(llmCalls) = 1
          /\ (Len(llmCalls) = 1 /\ phase1Intents # <<>>) =>
                /\ llmCalls[1].context = CombinedContext(handlerRuns, 1, Len(handlerRuns))
                /\ Len(handlerRuns) = Len(phase1Intents)
                /\ \A j \in 1..Len(handlerRuns) :
                      /\ handlerRuns[j].done
                      /\ handlerRuns[j].intentType = phase1Intents[j].intentType
                /\ TurnSucceeded => response.phases = 1
          /\ (Len(llmCalls) = 1 /\ phase1Intents = <<>>) =>
                /\ llmCalls[1].context = <<>>
                /\ handlerRuns = <<>>
    /\ (/\ detectedIntents # <<>>
        /\ \A k \in 1..Len(detectedIntents) :
              \/ detectedIntents[k].confidence < ConfidenceThreshold
              \/ detectedIntents[k].intentType \notin DOMAIN HandlerPhase)
          => (phase1Intents = <<>> /\ phase2Intents = <<>> /\ handlerRuns = <<>>)

\* A turn with two Phase-1 intents has answered after one generation call
\* whose prompt carried both handlers' context blocks.
C5_Witness ==
    /\ TurnSucceeded
    /\ phase2Intents = <<>>
    /\ Len(phase1Intents) = 2
    /\ Len(llmCalls) = 1
    /\ Len(llmCalls[1].context) = 2
    /\ response.phases = 1

\* C6: the token counts and the cost reported by a successful turn cover
\* every generation call the turn made: the component-wise sum of the calls'
\* usage, priced for the reported model.
C6_UsageCoversAllCalls ==
    TurnSucceeded =>
        LET n == Len(llmCalls) IN
        /\ response.prompt_tokens = SumCalls(llmCalls, n, "input_tokens")
        /\ response.completion_tokens = SumCalls(llmCalls, n, "output_tokens")
        /\ response.total_tokens = SumCalls(llmCalls, n, "total_tokens")
        /\ response.cost_usd = calculateTotalCost(CallUsages, response.model)

\* C8: after a successful turn for session id s the conversation store maps
\* s to the id of the turn's last accepted LLM response, and the first
\* generation call of the next turn for s that sends no continuation
\* reference of its own carries exactly that id.
C8_SessionContinuity ==
    /\ (TurnSucceeded /\ req.session_id # "") =>
          /\ LastOkId(llmCalls) # NoId
          /\ conversationState[req.session_id] = LastOkId(llmCalls)
          /\ response.response_id = LastOkId(llmCalls)
    /\ (/\ req.session_id # ""
        /\ req.previous_response_id = NoId
        /\ lastSuccess[req.session_id] # NoId
        /\ Len(llmCalls) >= 1) =>
          llmCalls[1].previous_response_id = lastSuccess[req.session_id]

\* The second turn of session s1 has issued its first generation call with
\* the id the first turn stored.
C8_Witness ==
    /\ turn = 2
    /\ req.session_id = "s1"
    /\ req.previous_response_id = NoId
    /\ Len(llmCalls) >= 1
    /\ lastSuccess["s1"] # NoId
    /\ llmCalls[1].previous_response_id = lastSuccess["s1"]

\* C9: without a session id the fixed key "default" serves both directions:
\* the id a session-less turn stored is the continuation reference of the
\* first generation call of the next session-less turn that sends none of
\* its own.
C9_DefaultKeyContinuity ==
    /\ (TurnSucceeded /\ req.session_id = "") =>
          conversationState["default"] = LastOkId(llmCalls)
    /\ (/\ req.message_ok
        /\ req.session_id = ""
        /\ req.previous_response_id = NoId
        /\ lastSuccess["default"] # NoId
        /\ Len(llmCalls) >= 1) =>
          llmCalls[1].previous_response_id = lastSuccess["default"]

\* C10: a turn that ends in an error response leaves the conversation store
\* exactly as it was when the turn began, and its response carries no
\* playlist.
C10_FailedTurnPersistsNothing ==
    TurnFailed =>
        /\ conversationState = storeBefore
        /\ ~response.hasPlaylist
        /\ response.songs = <<>>
        /\ response.response_id = NoId

\* The normal flow of a turn whose session already has a stored id has
\* failed on a generation output without a songs array.
C10_Witness ==
    /\ TurnFailed
    /\ response.status = 500
    /\ Len(llmCalls) >= 1
    /\ llmCalls[Len(llmCalls)].done
    /\ llmCalls[Len(llmCalls)].id # NoId
    /\ ~llmCalls[Len(llmCalls)].ok
    /\ conversationState[StoreKey(req)] # NoId

-----------------------------------------------------------------------------
(* Claims about track search and verification *)

\* the searches that returned with a list of candidates
AnsweredTasks ==
    { i \in 1..Len(vsTasks) : vsTasks[i].pc = "done" /\ vsTasks[i].outcome = "ok" }

RequestedOf(i) == extractArtistsForMatching(vsTasks[i].artistName)

CandidateMatches(i, k) == artistsMatch(RequestedOf(i), vsTasks[i].items[k].artists)

\* C11: searchTrack returns the first candidate, in search-result order,
\* whose artists match all requested artists, and null when no candidate
\* matches; it never falls back to the top hit.
C11_FirstMatchingCandidate ==
    \A i \in AnsweredTasks :
        LET items == vsTasks[i].items
            track == vsTasks[i].track
        IN  /\ track # NoTrack =>
                  \E k \in 1..Len(items) :
                      /\ items[k] = track
                      /\ CandidateMatches(i, k)
                      /\ \A j \in 1..(k - 1) : ~CandidateMatches(i, j)
            /\ track = NoTrack =>
                  \A k \in 1..Len(items) : ~CandidateMatches(i, k)

\* a search whose top hit does not match and whose second candidate does,
\* and a search none of whose candidates matches
C11_Witness ==
    /\ \E i \in AnsweredTasks :
          /\ Len(vsTasks[i].items) = 2
          /\ vsTasks[i].track = vsTasks[i].items[2]
    /\ \E i \in AnsweredTasks :
          /\ Len(vsTasks[i].items) > 0
          /\ vsTasks[i].track = NoTrack

\* word occurs in name, ignoring case, as a whole word or word sequence:
\* the characters next to the occurrence are not word characters
OccursAsWholeWords(word, name) ==
    LET w == Trim(toLowerCase(word))
        n == toLowerCase(name)
    IN  /\ Len(w) > 0
        /\ \E k \in 0..(Len(n) - Len(w)) :
              /\ SubSeq(n, k + 1, k + Len(w)) = w
              /\ k = 0 \/ ~IsWordChar(n[k])
              /\ k + Len(w) = Len(n) \/ ~IsWordChar(n[k + Len(w) + 1])

\* C12: artistsMatch(requested, trackArtists) is true exactly when every
\* requested artist occurs, case-insensitively, as a whole word or word
\* sequence inside at least one track artist's name.
C12_MatchIsWholeWordOccurrence ==
    \A i \in AnsweredTasks :
        \A k \in 1..Len(vsTasks[i].items) :
            CandidateMatches(i, k) =
                \A r \in 1..Len(RequestedOf(i)) :
                    \E t \in 1..Len(vsTasks[i].items[k].artists) :
                        OccursAsWholeWords(RequestedOf(i)[r],
                                           vsTasks[i].items[k].artists[t].name)

\* the artist string of song names no artist: it is empty or blank, or
\* splitting it on collaboration markers leaves no name
ArtistUnusable(song) ==
    /\ song.artist.t = "string"
    /\ \/ Trim(song.artist.v) = <<>>
       \/ \A r \in 1..Len(extractArtistsForMatching(Trim(song.artist.v))) :
             extractArtistsForMatching(Trim(song.artist.v))[r] = <<>>

\* C13: a song whose artist string is empty, whitespace-only or without a
\* requested-artist name is not verified, and no search request is issued
\* for it.
C13_UnusableArtistNotSearched ==
    \A i \in 1..Len(vsSongs) :
        ArtistUnusable(vsSongs[i]) =>
            /\ \A r \in 1..Len(searchRequests) : searchRequests[r].index # i
            /\ vsPc = "returned" => ~verifiedSongs[i].verified

\* both fields of song are strings that are not empty after trimming
FieldsNonEmpty(song) ==
    /\ song.song.t = "string" /\ Trim(song.song.v) # <<>>
    /\ song.artist.t = "string" /\ Trim(song.artist.v) # <<>>

\* C14: verifySongs keeps every song whose song and artist are non-empty
\* after trimming, at its place in the output, and fails with an error when
\* a song or artist is missing or empty after trimming.
C14_VerifySongsKeepsOrFails ==
    /\ vsPc = "returned" =>
          /\ Len(verifiedSongs) = Len(vsSongs)
          /\ \A i \in 1..Len(vsSongs) :
                FieldsNonEmpty(vsSongs[i]) =>
                    /\ verifiedSongs[i].song = Trim(vsSongs[i].song.v)
                    /\ verifiedSongs[i].artist = Trim(vsSongs[i].artist.v)
    /\ (\E i \in 1..Len(vsSongs) : ~FieldsNonEmpty(vsSongs[i])) =>
          vsPc \notin {"running", "returned"}

-----------------------------------------------------------------------------
(* Claims about the catalog read operations *)

\* C15: searchTrack and the list operations never throw to their caller:
\* on an upstream error searchTrack returns null and a list operation
\* returns an empty or partial list.
C15_ReadsNeverThrow ==
    /\ \A i \in 1..Len(vsTasks) :
          /\ vsTasks[i].pc = "threw" => vsTasks[i].outcome = "invalid"
          /\ vsTasks[i].outcome \in {"token_error", "error", "malformed"} =>
                vsTasks[i].pc = "done" /\ vsTasks[i].track = NoTrack
    /\ listPc # "threw"
    /\ listOutcome \in {"token_error", "page_error"} =>
          listPc = "returned" /\ listResult = <<>>
    /\ (listPc = "returned" /\ listOp.name = "getTopTracksForArtists") =>
          listResult = allTracks

\* a list operation whose second page failed, after a first page with tracks
C15_Witness ==
    /\ listPc = "returned"
    /\ listOutcome = "page_error"
    /\ listStep > 1
    /\ allTracks # <<>>

\* C17: in a paginated fetch, a failure on a page after the first is "no
\* more data": the items of the pages already fetched are returned.
C17_LaterPageFailureKeepsFetched ==
    ( /\ listPc = "returned"
      /\ listOp.name \in {"getPopularTracks", "getTracksFromPlaylist"}
      /\ listOutcome = "page_error"
      /\ listStep > 1 )
    => listResult = ListResult(listOp, allTracks)

\* C16: a failed credential acquisition inside a handler's call chain is
\* fatal for the turn: the turn ends with an error response, not a playlist.
C16_CredentialFailureEndsTurn ==
    (pc = "done" /\ credentialFailed) =>
        (response.status >= 400 /\ ~response.hasPlaylist)


(***************************************************************************)
(* Claims about the playlist cache                                         *)
(***************************************************************************)

\* a call of op that has come back, by return or by throw
CacheCallBack(p, op) ==
    /\ cacheProcs[p].op = op
    /\ cacheProcs[p].pc \in {"returned", "threw"}

\* C18: needsRefresh() returns true exactly when the snapshot is absent,
\* unreadable, lacks a last-update time, or was last updated more than 24
\* hours ago, and false otherwise; an absent snapshot is never an error:
\* getCachedPlaylists() reads it as an empty playlist list.
C18_NeedsRefreshExactlyWhenDue ==
    \A p \in CacheProcs :
        /\ CacheCallBack(p, "needsRefresh") =>
              /\ cacheProcs[p].pc = "returned"
              /\ cacheProcs[p].stale =
                    (\/ cacheProcs[p].seen = "absent"
                     \/ cacheProcs[p].seen # "whole"
                     \/ cacheProcs[p].age = NoUpdate
                     \/ cacheProcs[p].age > CacheTtl)
        /\ (CacheCallBack(p, "getCachedPlaylists") /\ cacheProcs[p].seen = "absent") =>
              /\ cacheProcs[p].pc = "returned"
              /\ cacheProcs[p].result = <<>>

\* needsRefresh() has returned false for a snapshot updated exactly 24
\* hours ago
C18_Witness ==
    \E p \in CacheProcs :
        /\ CacheCallBack(p, "needsRefresh")
        /\ cacheProcs[p].seen = "whole"
        /\ cacheProcs[p].age = CacheTtl
        /\ ~cacheProcs[p].stale

\* C19: once refreshCache completes, the snapshot holds exactly the
\* playlists enumerated by that refresh with a new last-update time, and no
\* reader, including one running concurrently with a refresh or with a
\* second refresh, observes a partially written snapshot or a mix of two
\* refreshes.
C19_RefreshReplacesAtomically ==
    \A p \in CacheProcs :
        /\ (cacheProcs[p].op = "refreshCache" /\ cacheProcs[p].pc = "returned") =>
              cacheProcs[p].replaced
        /\ (\/ CacheCallBack(p, "getCachedPlaylists")
            \/ CacheCallBack(p, "needsRefresh")) =>
              cacheProcs[p].seen \notin {"truncated", "torn"}


\* position of a playlist in the playlists argument
PositionIn(playlists, playlist) ==
    CHOOSE i \in 1..Len(playlists) : playlists[i] = playlist

\* C20: searchPlaylists(playlists, keywords, limit) returns only playlists
\* whose accumulated score is greater than zero, at most limit of them, in
\* non-increasing score order, with equal-score playlists kept in their
\* original encounter order; with no keywords it returns an empty list.
C20_SearchPlaylistsRanking ==
    spPc = "returned" =>
        LET Score(playlist) == PlaylistScore(playlist, spArgs.keywords)
        IN  /\ \A i \in 1..Len(spResult) :
                  /\ \E k \in 1..Len(spArgs.playlists) :
                        spArgs.playlists[k] = spResult[i]
                  /\ Score(spResult[i]) > 0
            /\ Len(spResult) <= spArgs.limit
            /\ \A i, j \in 1..Len(spResult) :
                  i < j =>
                     /\ Score(spResult[i]) >= Score(spResult[j])
                     /\ Score(spResult[i]) = Score(spResult[j]) =>
                           PositionIn(spArgs.playlists, spResult[i])
                              < PositionIn(spArgs.playlists, spResult[j])
            /\ spArgs.keywords = <<>> => spResult = <<>>

\* a call has returned two playlists of equal score and left out a
\* playlist of score zero
C20_Witness ==
    /\ spPc = "returned"
    /\ Len(spResult) = 2
    /\ PlaylistScore(spResult[1], spArgs.keywords)
          = PlaylistScore(spResult[2], spArgs.keywords)
    /\ \E k \in 1..Len(spArgs.playlists) :
          PlaylistScore(spArgs.playlists[k], spArgs.keywords) = 0


\* the keyword occurs in the text, at a word boundary or as a plain substring
KeywordOccursIn(keyword, text) ==
    \/ WordBoundaryRegexTest(toLowerCase(keyword), toLowerCase(text))
    \/ Includes(toLowerCase(text), toLowerCase(keyword))

\* the playlist is in the result, at this position (0 when it is not)
RankOf(result, playlist) ==
    IF \E i \in 1..Len(result) : result[i] = playlist
    THEN CHOOSE i \in 1..Len(result) : result[i] = playlist
    ELSE 0

\* C21: for a single query keyword, any playlist that matches the keyword
\* in its name (word-boundary or plain substring) ranks strictly above any
\* playlist that matches the keyword only in its description.
C21_NameMatchOutranksDescriptionMatch ==
    (spPc = "returned" /\ Len(spArgs.keywords) = 1) =>
        \A i, j \in 1..Len(spArgs.playlists) :
            LET inName == spArgs.playlists[i]
                inDesc == spArgs.playlists[j]
                keyword == spArgs.keywords[1]
            IN  (/\ KeywordOccursIn(keyword, inName.name)
                 /\ ~KeywordOccursIn(keyword, inDesc.name)
                 /\ KeywordOccursIn(keyword, inDesc.description)
                 /\ RankOf(spResult, inDesc) > 0)
                => (/\ RankOf(spResult, inName) > 0
                    /\ RankOf(spResult, inName) < RankOf(spResult, inDesc))


-----------------------------------------------------------------------------
(* Claims about intent dispatch and the validation of LLM output *)

\* the detected intents that are due for dispatch in a phase: confidence
\* 0.5 or higher and a registered handler of that phase
DueIntents(detected, phase) ==
    LET Due(i) == /\ i.confidence >= ConfidenceThreshold
                  /\ i.intentType \in DOMAIN HandlerPhase
                  /\ HandlerPhase[i.intentType] = phase
    IN  SelectSeq(detected, Due)

\* C22: intents with confidence below 0.5 are treated as absent, and every
\* detected intent with confidence 0.5 or higher whose type has a
\* registered handler is dispatched.
C22_ConfidenceGate ==
    detectedIntents # <<>> =>
        /\ phase1Intents = DueIntents(detectedIntents, 1)
        /\ phase2Intents = DueIntents(detectedIntents, 2)
        /\ pc = "await_phase1_handlers" =>
              [i \in 1..Len(handlerRuns) |-> handlerRuns[i].intentType]
                 = [i \in 1..Len(phase1Intents) |-> phase1Intents[i].intentType]

\* C23: if the classification call fails or returns malformed output
\* (invalid JSON, JSON null, missing or non-array intents), classification
\* yields no intents and the turn continues down the no-intent path; the
\* only other end of that step is the rejection of an invalid current
\* playlist by the prompt builder.
C23_ClassificationNeverBlocks ==
    [][\A c \in ClassifierChoices :
          (c.kind # "ok" /\ ClassifierReturns(c)) =>
              /\ phase1Intents' = <<>>
              /\ phase2Intents' = <<>>
              /\ handlerRuns' = <<>>
              /\ \/ pc' = "await_normal_llm"
                 \/ /\ HasInvalidSong(req.currentPlaylist.songs)
                    /\ pc' = "done"]_vars

RegistrationIndex(h) ==
    CHOOSE k \in 1..Len(RegistrationOrder) : RegistrationOrder[k] = h

InRegistrationOrder(ctx) ==
    \A a, b \in 1..Len(ctx) :
        a < b => RegistrationIndex(ctx[a].h) <= RegistrationIndex(ctx[b].h)

\* the context blocks the finished runs of a phase resolved to
BlocksOfPhase(phase) ==
    { handlerRuns[i].context[1] :
        i \in { k \in 1..Len(handlerRuns) :
                  /\ handlerRuns[k].phase = phase
                  /\ handlerRuns[k].done
                  /\ handlerRuns[k].context # <<>> } }

BlocksIn(ctx) == { ctx[k] : k \in 1..Len(ctx) }

\* C24: within a phase, the combined context is the join of the handlers'
\* non-empty context strings (an empty context contributes nothing),
\* ordered by the order in which the handlers were registered.
C24_ContextInRegistrationOrder ==
    /\ BlocksIn(phase1Context) \subseteq BlocksOfPhase(1)
    /\ BlocksIn(phase2Context) \subseteq BlocksOfPhase(2)
    /\ InRegistrationOrder(phase1Context)
    /\ InRegistrationOrder(phase2Context)

\* C25: if one handler in a phase fails, its sibling handlers still run to
\* completion and their contexts are used; only the failing handler's
\* context contribution is lost and the turn is not aborted: a generation
\* call follows the handlers.
C25_FailedHandlerLosesOnlyItsContext ==
    /\ \A i \in 1..Len(handlerRuns) :
          (handlerRuns[i].done /\ handlerRuns[i].context # <<>>) =>
              handlerRuns[i].context[1] \in
                  BlocksIn(IF handlerRuns[i].phase = 1 THEN phase1Context
                           ELSE phase2Context)
    /\ (pc = "done" /\ handlerRuns # <<>>) => llmCalls # <<>>
    /\ (handlerRuns # <<>> /\ \A i \in 1..Len(handlerRuns) : handlerRuns[i].done)
          => pc \in {"await_phase1_llm", "await_phase2_llm", "await_normal_llm",
                     "await_phase2_handlers", "done"}

\* of two Phase-1 handlers one came back without data because its
\* credential request threw; the context of the other is in the prompt of
\* the generation call
C25_Witness ==
    /\ pc = "await_phase1_llm"
    /\ credentialFailed
    /\ Len(handlerRuns) = 2
    /\ \E i, j \in 1..2 :
          /\ handlerRuns[i].context = <<>>
          /\ handlerRuns[j].context # <<>>
    /\ llmCalls[Len(llmCalls)].context = phase1Context
    /\ phase1Context # <<>>

\* what the validation is to keep of a song, and what it is to make of it
KeepsSong(song) ==
    /\ song.song.t = "string"
    /\ song.artist.t = "string"
    /\ Trim(song.song.v) # <<>>
    /\ Trim(song.artist.v) # <<>>

ExpectedSongs(raw) ==
    LET kept == SelectSeq(raw, KeepsSong)
    IN  [i \in 1..Len(kept) |-> [song   |-> JStr(Trim(kept[i].song.v)),
                                 artist |-> JStr(Trim(kept[i].artist.v))]]

\* C26: validateAndFilterSongs discards, without throwing, every song that
\* lacks a string song or artist or whose song or artist is empty after
\* trimming, and keeps all other songs trimmed and in their original
\* order; every song in a successful chat response has a non-empty trimmed
\* song and artist.
C26_InvalidSongsDiscarded ==
    (pc = "done" /\ response.status = 200) =>
        /\ response.songs = ExpectedSongs(llmCalls[Len(llmCalls)].songs)
        /\ \A i \in 1..Len(response.songs) :
              /\ response.songs[i].song.v # <<>>
              /\ response.songs[i].artist.v # <<>>
              /\ Trim(response.songs[i].song.v) = response.songs[i].song.v
              /\ Trim(response.songs[i].artist.v) = response.songs[i].artist.v

\* a successful response to LLM output with a song without artist, a song
\* to trim and a song that is blank
C26_Witness ==
    /\ pc = "done"
    /\ response.status = 200
    /\ llmCalls[Len(llmCalls)].songs = <<SongNoArtist, SongB, SongBlank>>
    /\ Len(response.songs) = 1

\* C27: every successful chat response carries a reply string and between
\* 0 and 20 songs, whatever the LLM returned.
C27_ResponseWithinSchema ==
    (pc = "done" /\ response.status = 200) =>
        /\ response.reply = "string"
        /\ Len(response.songs) <= SchemaMaxItems

\* C28: if a generation or refinement call returns empty content, invalid
\* JSON, or JSON without a songs array, the turn ends with an error
\* response and no playlist, in every path.
C28_BadOutputIsFatal ==
    \A k \in 1..Len(llmCalls) :
        (/\ llmCalls[k].done
         /\ llmCalls[k].id # NoId
         /\ llmCalls[k].songsKind # "array")
        => (/\ pc = "done"
            /\ response.status >= 400
            /\ ~response.hasPlaylist)

-----------------------------------------------------------------------------
(* Claims about the upload *)

\* the ids of the songs that are verified and carry a catalog id, in
\* playlist order
QualifyingIds(songs) ==
    LET Qualifies(song) == song.verified /\ song.spotifyId # NoSpotifyId
        kept == SelectSeq(songs, Qualifies)
    IN  [i \in 1..Len(kept) |-> kept[i].spotifyId]

RECURSIVE Flatten(_)
Flatten(batches) ==
    IF batches = <<>> THEN <<>>
    ELSE Flatten(SubSeq(batches, 1, Len(batches) - 1)) \o batches[Len(batches)]

CeilDiv(k, n) == (k + n - 1) \div n

IsPrefix(s, t) == Len(s) <= Len(t) /\ SubSeq(t, 1, Len(s)) = s

\* C30: upload adds to the remote playlist exactly the songs that are
\* verified and carry a catalog id, in playlist order, split into
\* consecutive batches of at most 100 tracks (ceil(k/100) add requests for
\* k such songs); unverified songs are never uploaded, and with zero
\* qualifying songs in a list of song objects the request fails, with
\* "No verified songs to upload" once the creation request has succeeded,
\* adds no tracks and calls the remote creation endpoint at most once.
C30_UploadOnlyVerifiedInBatches ==
    LET qualifying == QualifyingIds(upReq.songs)
    IN  /\ IsPrefix(Flatten(upAdds), qualifying)
        /\ \A b \in 1..Len(upAdds) :
              Len(upAdds[b]) >= 1 /\ Len(upAdds[b]) <= BatchSize
        /\ \A b \in 1..(Len(upAdds) - 1) : Len(upAdds[b]) = BatchSize
        /\ upCreateCalls <= 1
        /\ (upPc = "done" /\ upResponse.status = 200) =>
              /\ Flatten(upAdds) = qualifying
              /\ Len(upAdds) = CeilDiv(Len(qualifying), BatchSize)
              /\ upResponse.trackCount = Len(qualifying)
        /\ (upPc = "done" /\ qualifying = <<>>) =>
              /\ upResponse.status >= 400
              /\ upAdds = <<>>
              /\ (upCreated /\ upReq.songsAreObjects) =>
                    upResponse.error = "No verified songs to upload"

\* an upload of a playlist with unverified songs and songs without id has
\* succeeded with more than one add request, the last one not full
C30_Witness ==
    /\ upPc = "done"
    /\ upResponse.status = 200
    /\ Len(upAdds) = 2
    /\ Len(upAdds[2]) < BatchSize
    /\ \E i \in 1..Len(upReq.songs) : ~upReq.songs[i].verified

-----------------------------------------------------------------------------
(* Claims of the last review: frame effects, termination and the turn *)
(* boundary                                                           *)

\* C40: when an upload request fails with "No verified songs to upload", no
\* remote playlist has been created on the user's account by that request.
C40_FailedUploadCreatesNothing ==
    (upPc = "done" /\ upResponse.error = "No verified songs to upload")
        => ~upCreated

\* C39: a cache refresh whose upstream enumeration fails leaves a previously
\* non-empty snapshot and its last-update time unchanged: no step of the
\* write of such a refresh changes the snapshot file.
C39_FailedEnumerationKeepsSnapshot ==
    [][ \A p \in CacheProcs :
          ( /\ cacheProcs[p].failed
            /\ cacheFile.state = "whole"
            /\ cacheFile.playlists # <<>>
            /\ cacheFile.lastCacheUpdate # NoUpdate
            /\ (CacheWriteOpens(p, TRUE) \/ CacheWriteCompletes(p)) )
          => cacheFile' = cacheFile ]_vars

\* C38: when a turn is rejected with 401 because Phase-2 intents are present
\* but no catalog session id was sent (no generation call was rejected
\* upstream), no LLM generation call has been made for that turn.
C38_SessionCheckBeforeGeneration ==
    ( /\ pc = "done"
      /\ response.status = 401
      /\ phase2Intents # <<>>
      /\ req.spotifySessionId = ""
      /\ \A k \in 1..Len(llmCalls) : llmCalls[k].id # NoId )
    => llmCalls = <<>>

\* the generation calls whose usage the response of the turn accounts for:
\* both calls of a two-phase answer, the Phase-1 call of a Phase-1 answer,
\* the call of the normal flow otherwise
CountedCalls ==
    IF response.phases = 2 THEN {1, 2}
    ELSE IF response.phases = 1 THEN {1}
    ELSE {Len(llmCalls)}

\* the price of the usage of generation call k at the rates of the model
\* that call was made with
CostOfCall(k) ==
    LET pricing == MODEL_PRICING[llmCalls[k].model]
        usage == llmCalls[k].usage
    IN  (OrZero(usage.input_tokens) - OrZero(usage.cached_tokens)) * pricing.input
        + OrZero(usage.cached_tokens) * pricing.cached
        + OrZero(usage.output_tokens) * pricing.output

RECURSIVE CostOfCalls(_, _)
CostOfCalls(counted, n) ==
    IF n = 0 THEN 0
    ELSE CostOfCalls(counted, n - 1) + (IF n \in counted THEN CostOfCall(n) ELSE 0)

\* C37: the cost reported for a turn is computed with the pricing-table
\* entry of the model actually used for that turn's LLM calls, and the model
\* reported in the response is the model that was used, for every requested
\* model value.
C37_CostAndModelOfTheModelUsed ==
    TurnSucceeded =>
        /\ \A k \in 1..Len(llmCalls) : response.model = llmCalls[k].model
        /\ response.cost_usd = CostOfCalls(CountedCalls, Len(llmCalls))

\* the last generation call of the turn was rejected by the API
LastCallThrew ==
    /\ llmCalls # <<>>
    /\ llmCalls[Len(llmCalls)].done
    /\ llmCalls[Len(llmCalls)].id = NoId

\* C33: every chat turn ends with exactly one response; when an exception
\* reaches the turn boundary the response status is 401 if the upstream
\* status is 401, 429 if it is 429, 503 if it is 500 or above, and 500 in
\* every other case (an error without status: rejected output, an invalid
\* song, a malformed classification).
C33_OneResponseWithMappedStatus ==
    /\ (pc = "done") <=> (response # NoResponse)
    /\ (pc = "done") => response.status \in {200, 400, 401, 429, 500, 503}
    /\ (pc = "done" /\ LastCallThrew) =>
          LET upstream == llmCalls[Len(llmCalls)].status
          IN  /\ upstream = 401 => response.status = 401
              /\ upstream = 429 => response.status = 429
              /\ upstream >= 500 => response.status = 503
              /\ upstream \notin {401, 429} /\ upstream < 500 => response.status = 500
    /\ (TurnFailed /\ llmCalls # <<>> /\ ~LastCallThrew
          /\ ~llmCalls[Len(llmCalls)].ok) => response.status = 500
    /\ (TurnFailed /\ llmCalls = <<>> /\ req.message_ok /\ openai) =>
          response.status = 500

\* a generation call was rejected upstream with status 500 and the turn has
\* answered 503
C33_Witness ==
    /\ pc = "done"
    /\ LastCallThrew
    /\ llmCalls[Len(llmCalls)].status = 500
    /\ response.status = 503

\* C34: a failed credential acquisition is not cached.  The step in which a
\* token request fails clears the in-flight marker and leaves the cached
\* token and expiry as they were; every caller that waited on that request
\* receives the failure; and the next getSpotifyAccessToken call issues a
\* fresh upstream token request.
C34_FailedAcquisitionNotCached ==
    /\ [] ( /\ \A r \in 1..Len(requests) :
                  requests[r].state = "failed" =>
                      (accessToken # TokenOf(r) /\ tokenPromise # r)
            /\ \A c \in Callers :
                  ( /\ callers[c].pc = "done"
                    /\ callers[c].req # 0
                    /\ requests[callers[c].req].state = "failed" )
                  => /\ callers[c].error = "Failed to authenticate with Spotify API"
                     /\ callers[c].result = 0 )
    /\ [][ /\ \A r \in 1..Len(requests) :
                 (requests[r].state = "pending" /\ requests'[r].state = "failed")
                 => /\ tokenPromise' = 0
                    /\ accessToken' = accessToken
                    /\ tokenExpiry' = tokenExpiry
           /\ \A c \in Callers :
                 ( /\ requests # <<>>
                   /\ requests[Len(requests)].state = "failed"
                   /\ callers[c].pc = "idle"
                   /\ callers'[c].pc # "idle" )
                 => /\ Len(requests') = Len(requests) + 1
                    /\ requests'[Len(requests')].state = "pending"
                    /\ callers'[c].started
                    /\ callers'[c].req = Len(requests') ]_vars

\* a request has failed, two callers that waited on it hold the failure, and
\* a later call has issued the next request
C34_Witness ==
    /\ Len(requests) >= 2
    /\ requests[1].state = "failed"
    /\ \E c1, c2, c3 \in Callers :
          /\ c1 # c2
          /\ callers[c1].pc = "done" /\ callers[c1].req = 1
          /\ callers[c2].pc = "done" /\ callers[c2].req = 1
          /\ callers[c1].error = "Failed to authenticate with Spotify API"
          /\ callers[c2].error = "Failed to authenticate with Spotify API"
          /\ callers[c3].started /\ callers[c3].req = 2

\* C35: artistsMatch is reflexive on single names: for every non-empty
\* artist name X, artistsMatch([X], [{name: X}]) is true, including names
\* that begin or end with a non-word character.
C35_ArtistsMatchReflexive ==
    \A i \in AnsweredTasks :
        \A k \in 1..Len(vsTasks[i].items) :
            LET requested == RequestedOf(i)
                artists == vsTasks[i].items[k].artists
            IN  ( /\ Len(requested) = 1
                  /\ Len(requested[1]) > 0
                  /\ Len(artists) = 1
                  /\ artists[1].name = requested[1] )
                => artistsMatch(requested, artists)

\* C36: the verification transport (POST /playlist) sends exactly one
\* response for every request that has a songs array and a session id,
\* including when some song has an invalid shape and both the verification
\* and the unverified-fallback construction fail.
C36_PlaylistRouteAnswersOnce ==
    /\ plRoute.responses <= 1
    /\ plRoute.pc \in {"responded", "rejected"} => plRoute.responses = 1

\* C32: fetchUserPlaylists stops as soon as a response signals no further
\* page (a null or missing next link) or a page request fails: it requests
\* a further page only after a response that carried a next-page link.
\* (getPopularTracks and getTracksFromPlaylist test the link for truth and
\* stop on both.)
C32_FurtherPageOnlyAfterNextLink ==
    [][ \A p \in CacheProcs, page \in PlaylistPageChoices :
          ( /\ PlaylistPageSettles(p, page)
            /\ cacheProcs'[p].pc = "fetching" )
          => (page.kind = "ok" /\ page.next = "url") ]_vars

\* a popular_tracks_from_artists turn in progress whose current playlist
\* already has songs
TwoPhaseSkipTurn ==
    /\ tpPc # "idle"
    /\ IsTwoPhaseIntent(tpLocals.intent)
    /\ HasSongs(tpReq.currentPlaylist)

\* the artists named by the songs of the current playlist
CurrentPlaylistArtists ==
    { ArtistOfSongText(tpReq.currentPlaylist.songs[i]) :
        i \in 1..Len(tpReq.currentPlaylist.songs) } \ {<<>>}

\* the thread identifier the turn continues from: the reference the client
\* sent, else the id the previous answered turn of the session produced
ThreadOfPreviousTurn ==
    IF tpReq.previous_response_id # NoId
    THEN tpReq.previous_response_id
    ELSE tpLast[StoreKey(tpReq)]

\* the turn was answered from the refinement call
AnsweredByRefinement ==
    /\ tpPc = "done"
    /\ tpResponse.status = 200
    /\ tpCalls # <<>>
    /\ tpCalls[Len(tpCalls)].tag = "phase2"

\* C31: in the orchestrator that may skip Phase 1, a
\* popular_tracks_from_artists turn whose current playlist already has songs
\* makes no Phase-1 generation call, seeds the top-track fetch with the
\* artists of the existing playlist, sends the refinement call with the
\* thread identifier the previous turn produced, and reports the usage and
\* the cost of the refinement call alone.
C31_SkipPhaseOneRefinesFromPreviousThread ==
    TwoPhaseSkipTurn =>
        /\ \A k \in 1..Len(tpCalls) : tpCalls[k].tag # "phase1"
        /\ tpLocals.fetched =>
              { tpLocals.seeded[i] : i \in 1..Len(tpLocals.seeded) }
                  = CurrentPlaylistArtists
        /\ \A k \in 1..Len(tpCalls) :
              tpCalls[k].tag = "phase2" =>
                  tpCalls[k].previous_response_id = ThreadOfPreviousTurn
        /\ AnsweredByRefinement =>
              LET refinement == HelperUsage(tpCalls[Len(tpCalls)].usage)
              IN  /\ Len(tpCalls) = 1
                  /\ tpResponse.prompt_tokens = refinement.prompt_tokens
                  /\ tpResponse.completion_tokens = refinement.completion_tokens
                  /\ tpResponse.total_tokens = refinement.total_tokens
                  /\ tpResponse.cost_usd = TwoPhaseCost(refinement, tpReq.model)
                  /\ tpResponse.phases = 1
                  /\ tpResponse.skipped_phase1

====
